---- MODULE Spec2Model ----
(***************************************************************************)
(* Reference arithmetic coding (Project Nayuki), Python sources:           *)
(*   arithmeticcoding.py  bit streams, frequency tables, coder core,       *)
(*                        encoder and decoder                              *)
(*   adaptive-arithmetic-compress.py / -decompress.py   adaptive front end *)
(*   arithmetic-compress.py                             static front end   *)
(*   ppm-compress.py, ppmmodel.py                       PPM front end      *)
(*                                                                         *)
(* Objects are records, methods are operators from the object (and the     *)
(* arguments) to a call result [obj, ret, exc]: the object after the call, *)
(* the returned value and the exception raised ("" when none).  Python     *)
(* symbols are numbered from 0, TLA+ sequences from 1: frequencies[s] of   *)
(* the source is frequencies[s + 1] here.                                  *)
(***************************************************************************)
EXTENDS Integers, Sequences, FiniteSets, TLC

VARIABLES
    freqs,      \* the frequency table object the caller holds
    last,       \* the last call made and what it returned or raised
    enc,        \* the ArithmeticEncoder with its BitOutputStream
    dec,        \* the ArithmeticDecoder with its BitInputStream
    written,    \* the symbols written so far
    tables,     \* the table each of them was written with
    decoded,    \* the symbols read back so far
    pc,         \* where the session is
    outstream,  \* a BitOutputStream used on its own
    instream,   \* a BitInputStream used on its own
    bits,       \* the bits written to outstream so far
    got,        \* what the read() calls on instream returned so far
    infile,     \* the input file of a front end: the bytes not read yet
    outfile,    \* the output file of a decompressor: the bytes written so far
    model,      \* the PpmModel of a PPM front end
    history     \* the history list of a PPM front end

bitVars == <<outstream, instream, bits, got>>
fileVars == <<infile, outfile>>
ppmVars == <<model, history>>
vars == <<freqs, last, enc, dec, written, tables, decoded, pc, bitVars, fileVars, ppmVars>>

(***************************************************************************)
(* Bounds of the model.                                                    *)
(***************************************************************************)
\* Largest num_state_bits a coder is constructed with.
MaxStateBits == 3
\* Largest number of symbols of a frequency table.
MaxLimit == 2
\* Largest single frequency a table is constructed with or set to.
MaxFreq == 2
\* Largest number of symbols written in one session.
MaxLen == 3
\* Largest total a table is incremented to in the table sessions.
MaxTableTotal == 4
\* Largest number of bytes of an arbitrary input stream of a decoder.
MaxInputBytes == 1
\* Largest number of bits written to a bit stream used on its own.
MaxBits == 9
\* Number of byte values of the files of the front ends (256 in the source):
\* their tables have NumByteValues + 1 symbols, the last one being EOF.
NumByteValues == 2
\* The num_state_bits the front ends construct their coders with (32 in the
\* source).
AppStateBits == 5
\* Largest number of bytes of an input file of a front end.
MaxFileLen == 5
\* Largest model order of the PPM front end (MODEL_ORDER, 3 in the source); the
\* smallest is -1.
MaxOrder == 3

None == << >>
NoExc == ""
\* The value of a variable that holds no object.
NoObject == [kind |-> "none"]

Result(obj, ret, exc) == [obj |-> obj, ret |-> ret, exc |-> exc]

(***************************************************************************)
(* Python's integer operators on non-negative integers.                    *)
(***************************************************************************)
RECURSIVE Pow2(_)
Pow2(n) == IF n = 0 THEN 1 ELSE 2 * Pow2(n - 1)

RECURSIVE BitAnd(_, _)
BitAnd(a, b) ==
    IF a = 0 \/ b = 0 THEN 0
    ELSE IF a = -1 THEN b
    ELSE IF b = -1 THEN a
    ELSE 2 * BitAnd(a \div 2, b \div 2) + (IF a % 2 = 1 /\ b % 2 = 1 THEN 1 ELSE 0)

RECURSIVE BitOr(_, _)
BitOr(a, b) ==
    IF a = 0 THEN b
    ELSE IF b = 0 THEN a
    ELSE IF a = -1 \/ b = -1 THEN -1
    ELSE 2 * BitOr(a \div 2, b \div 2) + (IF a % 2 = 1 \/ b % 2 = 1 THEN 1 ELSE 0)

\* ~a on Python's unbounded two's complement integers.
BitNot(a) == (-a) - 1

RECURSIVE BitXor(_, _)
BitXor(a, b) ==
    IF a = 0 THEN b
    ELSE IF b = 0 THEN a
    ELSE IF a = -1 THEN BitNot(b)
    ELSE IF b = -1 THEN BitNot(a)
    ELSE 2 * BitXor(a \div 2, b \div 2) + (IF a % 2 # b % 2 THEN 1 ELSE 0)

ShiftLeft(a, n) == a * Pow2(n)
ShiftRight(a, n) == a \div Pow2(n)

(***************************************************************************)
(* FlatFrequencyTable                                                      *)
(***************************************************************************)
FlatFrequencyTable(numsyms) == [kind |-> "flat", numsymbols |-> numsyms]

Flat_check_symbol(self, symbol) == 0 <= symbol /\ symbol < self.numsymbols

Flat_get_symbol_limit(self) == Result(self, self.numsymbols, NoExc)

Flat_get(self, symbol) ==
    IF ~Flat_check_symbol(self, symbol)
    THEN Result(self, 0, "ValueError: Symbol out of range")
    ELSE Result(self, 1, NoExc)

Flat_get_total(self) == Result(self, self.numsymbols, NoExc)

Flat_get_low(self, symbol) ==
    IF ~Flat_check_symbol(self, symbol)
    THEN Result(self, 0, "ValueError: Symbol out of range")
    ELSE Result(self, symbol, NoExc)

Flat_get_high(self, symbol) ==
    IF ~Flat_check_symbol(self, symbol)
    THEN Result(self, 0, "ValueError: Symbol out of range")
    ELSE Result(self, symbol + 1, NoExc)

Flat_set(self, symbol, freq) == Result(self, 0, "NotImplementedError")

Flat_increment(self, symbol) == Result(self, 0, "NotImplementedError")

(***************************************************************************)
(* SimpleFrequencyTable                                                    *)
(***************************************************************************)
RECURSIVE sum(_)
sum(frequencies) ==
    IF frequencies = << >> THEN 0
    ELSE frequencies[1] + sum(Tail(frequencies))

\* Constructed from a sequence of at least one non-negative frequency.
SimpleFrequencyTable(frequencies) ==
    [kind |-> "simple", frequencies |-> frequencies,
     total |-> sum(frequencies), cumulative |-> None]

Simple_check_symbol(self, symbol) == 0 <= symbol /\ symbol < Len(self.frequencies)

Simple_get_symbol_limit(self) == Result(self, Len(self.frequencies), NoExc)

Simple_get(self, symbol) ==
    IF ~Simple_check_symbol(self, symbol)
    THEN Result(self, 0, "ValueError: Symbol out of range")
    ELSE Result(self, self.frequencies[symbol + 1], NoExc)

\* set dropping the cumulative cache before it checks freq.
Simple_set_drops_cache_first(self, symbol, freq) ==
    IF ~Simple_check_symbol(self, symbol)
    THEN Result(self, 0, "ValueError: Symbol out of range")
    ELSE IF freq < 0
    THEN Result([self EXCEPT !.cumulative = None], 0, "ValueError: Negative frequency")
    ELSE Result([self EXCEPT !.total = (@ - self.frequencies[symbol + 1]) + freq,
                             !.frequencies[symbol + 1] = freq,
                             !.cumulative = None], 0, NoExc)

Simple_set(self, symbol, freq) ==
    IF ~Simple_check_symbol(self, symbol)
    THEN Result(self, 0, "ValueError: Symbol out of range")
    ELSE IF freq < 0
    THEN Result(self, 0, "ValueError: Negative frequency")
    ELSE LET temp == self.total - self.frequencies[symbol + 1] IN
         IF ~(temp >= 0)
         THEN Result(self, 0, "AssertionError")
         ELSE Result([self EXCEPT !.total = temp + freq,
                                  !.frequencies[symbol + 1] = freq,
                                  !.cumulative = None], 0, NoExc)

\* increment leaving the running total as it is.
Simple_increment_keeps_total(self, symbol) ==
    IF ~Simple_check_symbol(self, symbol)
    THEN Result(self, 0, "ValueError: Symbol out of range")
    ELSE Result([self EXCEPT !.frequencies[symbol + 1] = @ + 1,
                             !.cumulative = None], 0, NoExc)

\* increment keeping the cumulative cache.
Simple_increment_keeps_cache(self, symbol) ==
    IF ~Simple_check_symbol(self, symbol)
    THEN Result(self, 0, "ValueError: Symbol out of range")
    ELSE Result([self EXCEPT !.total = @ + 1,
                             !.frequencies[symbol + 1] = @ + 1], 0, NoExc)

Simple_increment(self, symbol) ==
    IF ~Simple_check_symbol(self, symbol)
    THEN Result(self, 0, "ValueError: Symbol out of range")
    ELSE Result([self EXCEPT !.total = @ + 1,
                             !.frequencies[symbol + 1] = @ + 1,
                             !.cumulative = None], 0, NoExc)

Simple_get_total(self) == Result(self, self.total, NoExc)

\* The loop of _init_cumulative: cumul grows by one running sum per frequency.
RECURSIVE cumul_loop(_, _, _)
cumul_loop(frequencies, i, cumul) ==
    IF i > Len(frequencies) THEN cumul
    ELSE cumul_loop(frequencies, i + 1,
                    Append(cumul, cumul[Len(cumul)] + frequencies[i]))

Simple_init_cumulative(self) ==
    LET Store(cumul) ==
            IF cumul[Len(cumul)] # self.total
            THEN Result(self, 0, "AssertionError")
            ELSE Result([self EXCEPT !.cumulative = cumul], 0, NoExc)
    IN Store(cumul_loop(self.frequencies, 1, <<0>>))

\* if self.cumulative is None: self._init_cumulative()
Simple_ensure_cumulative(self) ==
    IF self.cumulative = None THEN Simple_init_cumulative(self)
    ELSE Result(self, 0, NoExc)

Simple_get_low(self, symbol) ==
    IF ~Simple_check_symbol(self, symbol)
    THEN Result(self, 0, "ValueError: Symbol out of range")
    ELSE LET At(r) == IF r.exc # NoExc THEN r
                      ELSE Result(r.obj, r.obj.cumulative[symbol + 1], NoExc)
         IN At(Simple_ensure_cumulative(self))

Simple_get_high(self, symbol) ==
    IF ~Simple_check_symbol(self, symbol)
    THEN Result(self, 0, "ValueError: Symbol out of range")
    ELSE LET At(r) == IF r.exc # NoExc THEN r
                      ELSE Result(r.obj, r.obj.cumulative[symbol + 2], NoExc)
         IN At(Simple_ensure_cumulative(self))

(***************************************************************************)
(* FrequencyTable: the method the object's class provides.                 *)
(***************************************************************************)
get_symbol_limit(self) ==
    IF self.kind = "flat" THEN Flat_get_symbol_limit(self)
    ELSE Simple_get_symbol_limit(self)

get(self, symbol) ==
    IF self.kind = "flat" THEN Flat_get(self, symbol) ELSE Simple_get(self, symbol)

set(self, symbol, freq) ==
    IF self.kind = "flat" THEN Flat_set(self, symbol, freq)
    ELSE Simple_set(self, symbol, freq)

increment(self, symbol) ==
    IF self.kind = "flat" THEN Flat_increment(self, symbol)
    ELSE Simple_increment(self, symbol)

get_total(self) ==
    IF self.kind = "flat" THEN Flat_get_total(self) ELSE Simple_get_total(self)

get_low(self, symbol) ==
    IF self.kind = "flat" THEN Flat_get_low(self, symbol)
    ELSE Simple_get_low(self, symbol)

get_high(self, symbol) ==
    IF self.kind = "flat" THEN Flat_get_high(self, symbol)
    ELSE Simple_get_high(self, symbol)

(***************************************************************************)
(* CheckedFrequencyTable: self is the wrapped table (self.freqtable); the  *)
(* result's obj is the wrapped table after the call.                       *)
(***************************************************************************)
Checked_get_symbol_limit(self) ==
    LET Check(r) ==
            IF r.exc # NoExc THEN r
            ELSE IF r.ret <= 0
            THEN Result(r.obj, 0, "AssertionError: Non-positive symbol limit")
            ELSE r
    IN Check(get_symbol_limit(self))

\* ret is the truth value of 0 <= symbol < self.get_symbol_limit().
Checked_is_symbol_in_range(self, symbol) ==
    LET Check(r) ==
            IF r.exc # NoExc THEN r
            ELSE Result(r.obj, 0 <= symbol /\ symbol < r.ret, NoExc)
    IN Check(Checked_get_symbol_limit(self))

Checked_get_total(self) ==
    LET Check(r) ==
            IF r.exc # NoExc THEN r
            ELSE IF r.ret < 0
            THEN Result(r.obj, 0, "AssertionError: Negative total frequency")
            ELSE r
    IN Check(get_total(self))

\* get_low and get_high handing on the inner table's answer as it is.
Checked_get_cumulative_unchecked(self, symbol, which) ==
    IF which = "low" THEN get_low(self, symbol) ELSE get_high(self, symbol)

\* The body get_low and get_high share: which names the value returned.
Checked_get_cumulative(self, symbol, which) ==
    LET Check(lo, hi, tot) ==
            IF tot.exc # NoExc THEN tot
            ELSE IF ~(0 <= lo.ret /\ lo.ret <= hi.ret /\ hi.ret <= tot.ret)
            THEN Result(tot.obj, 0,
                    IF which = "low"
                    THEN "AssertionError: Symbol low cumulative frequency out of range"
                    ELSE "AssertionError: Symbol high cumulative frequency out of range")
            ELSE Result(tot.obj, IF which = "low" THEN lo.ret ELSE hi.ret, NoExc)
        WithHigh(lo, hi) ==
            IF hi.exc # NoExc THEN hi ELSE Check(lo, hi, get_total(hi.obj))
        WithLow(lo) ==
            IF lo.exc # NoExc THEN lo ELSE WithHigh(lo, get_high(lo.obj, symbol))
        OutOfRange(r) ==
            IF r.exc # NoExc THEN r
            ELSE Result(r.obj, 0, "AssertionError: ValueError expected")
        Branch(inr) ==
            IF inr.exc # NoExc THEN inr
            ELSE IF inr.ret THEN WithLow(get_low(inr.obj, symbol))
            ELSE OutOfRange(IF which = "low" THEN get_low(inr.obj, symbol)
                            ELSE get_high(inr.obj, symbol))
    IN Branch(Checked_is_symbol_in_range(self, symbol))

Checked_get_low(self, symbol) == Checked_get_cumulative(self, symbol, "low")

Checked_get_high(self, symbol) == Checked_get_cumulative(self, symbol, "high")

Checked_get(self, symbol) ==
    LET Check(r, inr) ==
            IF inr.exc # NoExc THEN inr
            ELSE IF ~inr.ret
            THEN Result(inr.obj, 0, "AssertionError: ValueError expected")
            ELSE IF r.ret < 0
            THEN Result(inr.obj, 0, "AssertionError: Negative symbol frequency")
            ELSE Result(inr.obj, r.ret, NoExc)
        Got(r) ==
            IF r.exc # NoExc THEN r
            ELSE Check(r, Checked_is_symbol_in_range(r.obj, symbol))
    IN Got(get(self, symbol))

Checked_set(self, symbol, freq) ==
    LET Check(inr) ==
            IF inr.exc # NoExc THEN inr
            ELSE IF ~inr.ret \/ freq < 0
            THEN Result(inr.obj, 0, "AssertionError: ValueError expected")
            ELSE Result(inr.obj, 0, NoExc)
        Done(r) ==
            IF r.exc # NoExc THEN r
            ELSE Check(Checked_is_symbol_in_range(r.obj, symbol))
    IN Done(set(self, symbol, freq))

Checked_increment(self, symbol) ==
    LET Check(inr) ==
            IF inr.exc # NoExc THEN inr
            ELSE IF ~inr.ret
            THEN Result(inr.obj, 0, "AssertionError: ValueError expected")
            ELSE Result(inr.obj, 0, NoExc)
        Done(r) ==
            IF r.exc # NoExc THEN r
            ELSE Check(Checked_is_symbol_in_range(r.obj, symbol))
    IN Done(increment(self, symbol))

(***************************************************************************)
(* BitOutputStream.  output is the underlying byte stream: the bytes       *)
(* written to it and whether it is closed.                                 *)
(***************************************************************************)
BitOutputStream ==
    [output |-> [bytes |-> << >>, closed |-> FALSE],
     currentbyte |-> 0, numbitsfilled |-> 0]

BitOutputStream_write(self, b) ==
    IF b \notin {0, 1} THEN Result(self, 0, "ValueError: Argument must be 0 or 1")
    ELSE IF self.numbitsfilled + 1 = 8
    THEN Result([self EXCEPT
                    !.output.bytes = Append(@, BitOr(ShiftLeft(self.currentbyte, 1), b)),
                    !.currentbyte = 0,
                    !.numbitsfilled = 0], 0, NoExc)
    ELSE Result([self EXCEPT !.currentbyte = BitOr(ShiftLeft(@, 1), b),
                             !.numbitsfilled = @ + 1], 0, NoExc)

RECURSIVE BitOutputStream_close(_)
BitOutputStream_close(self) ==
    IF self.numbitsfilled # 0
    THEN LET Go(w) == IF w.exc # NoExc THEN w ELSE BitOutputStream_close(w.obj)
         IN Go(BitOutputStream_write(self, 0))
    ELSE Result([self EXCEPT !.output.closed = TRUE], 0, NoExc)

(***************************************************************************)
(* BitInputStream.  input is the underlying byte stream: the bytes not     *)
(* read yet.                                                               *)
(***************************************************************************)
BitInputStream(inp) == [input |-> inp, currentbyte |-> 0, numbitsremaining |-> 0]

\* read() taking the bits of a byte from the lowest position up.
BitInputStream_read_lsb_first(self) ==
    IF self.currentbyte = -1 THEN Result(self, -1, NoExc)
    ELSE IF self.numbitsremaining = 0 /\ Len(self.input) = 0
    THEN Result([self EXCEPT !.currentbyte = -1], -1, NoExc)
    ELSE LET Take(s1) ==
                 Result([s1 EXCEPT !.numbitsremaining = @ - 1],
                        BitAnd(ShiftRight(s1.currentbyte, 8 - s1.numbitsremaining), 1),
                        NoExc)
         IN Take(IF self.numbitsremaining = 0
                 THEN [self EXCEPT !.input = Tail(@),
                                   !.currentbyte = self.input[1],
                                   !.numbitsremaining = 8]
                 ELSE self)

\* read() reporting the end of the stream without recording it in currentbyte.
BitInputStream_read_not_sticky(self) ==
    IF self.currentbyte = -1 THEN Result(self, -1, NoExc)
    ELSE IF self.numbitsremaining = 0 /\ Len(self.input) = 0
    THEN Result(self, -1, NoExc)
    ELSE LET Take(s1) ==
                 IF ~(s1.numbitsremaining > 0) THEN Result(s1, 0, "AssertionError")
                 ELSE Result([s1 EXCEPT !.numbitsremaining = @ - 1],
                             BitAnd(ShiftRight(s1.currentbyte, s1.numbitsremaining - 1), 1),
                             NoExc)
         IN Take(IF self.numbitsremaining = 0
                 THEN [self EXCEPT !.input = Tail(@),
                                   !.currentbyte = self.input[1],
                                   !.numbitsremaining = 8]
                 ELSE self)

BitInputStream_read(self) ==
    IF self.currentbyte = -1 THEN Result(self, -1, NoExc)
    ELSE IF self.numbitsremaining = 0 /\ Len(self.input) = 0
    THEN Result([self EXCEPT !.currentbyte = -1], -1, NoExc)
    ELSE LET Take(s1) ==
                 IF ~(s1.numbitsremaining > 0) THEN Result(s1, 0, "AssertionError")
                 ELSE Result([s1 EXCEPT !.numbitsremaining = @ - 1],
                             BitAnd(ShiftRight(s1.currentbyte, s1.numbitsremaining - 1), 1),
                             NoExc)
         IN Take(IF self.numbitsremaining = 0
                 THEN [self EXCEPT !.input = Tail(@),
                                   !.currentbyte = self.input[1],
                                   !.numbitsremaining = 8]
                 ELSE self)

BitInputStream_read_no_eof(self) ==
    LET Check(r) == IF r.ret # -1 THEN r ELSE Result(r.obj, 0, "EOFError")
    IN Check(BitInputStream_read(self))

(***************************************************************************)
(* ArithmeticCoderBase.  A coder is a record of the fields __init__ sets;  *)
(* the encoder adds output and num_underflow, the decoder input and code.  *)
(* calls is not a field of the source: it lists the shift ("s") and        *)
(* underflow ("u") calls of the last update, in order.                     *)
(***************************************************************************)
\* The coder with registers one bit wider than num_state_bits.
ArithmeticCoderBase_wide(numbits) ==
    [num_state_bits |-> numbits,
     full_range |-> ShiftLeft(1, numbits + 1),
     half_range |-> ShiftRight(ShiftLeft(1, numbits + 1), 1),
     quarter_range |-> ShiftRight(ShiftRight(ShiftLeft(1, numbits + 1), 1), 1),
     minimum_range |-> ShiftRight(ShiftRight(ShiftLeft(1, numbits + 1), 1), 1) + 2,
     maximum_total |-> ShiftRight(ShiftRight(ShiftLeft(1, numbits + 1), 1), 1) + 2,
     state_mask |-> ShiftLeft(1, numbits + 1) - 1,
     low |-> 0,
     high |-> ShiftLeft(1, numbits + 1) - 1,
     calls |-> << >>]

ArithmeticCoderBase(numbits) ==
    [num_state_bits |-> numbits,
     full_range |-> ShiftLeft(1, numbits),
     half_range |-> ShiftRight(ShiftLeft(1, numbits), 1),
     quarter_range |-> ShiftRight(ShiftRight(ShiftLeft(1, numbits), 1), 1),
     minimum_range |-> ShiftRight(ShiftRight(ShiftLeft(1, numbits), 1), 1) + 2,
     maximum_total |-> ShiftRight(ShiftRight(ShiftLeft(1, numbits), 1), 1) + 2,
     state_mask |-> ShiftLeft(1, numbits) - 1,
     low |-> 0,
     high |-> ShiftLeft(1, numbits) - 1,
     calls |-> << >>]

\* r extended with the fields of the record more.
Extend(r, more) ==
    [f \in DOMAIN r \cup DOMAIN more |-> IF f \in DOMAIN more THEN more[f] ELSE r[f]]

(***************************************************************************)
(* ArithmeticEncoder                                                       *)
(***************************************************************************)
ArithmeticEncoder(numbits, bitout) ==
    Extend(ArithmeticCoderBase(numbits),
           [kind |-> "enc", output |-> bitout, num_underflow |-> 0])

\* for _ in range(n): output.write(b)
RECURSIVE write_times(_, _, _)
write_times(output, b, n) ==
    IF n <= 0 THEN Result(output, 0, NoExc)
    ELSE LET Go(w) == IF w.exc # NoExc THEN w ELSE write_times(w.obj, b, n - 1)
         IN Go(BitOutputStream_write(output, b))

\* shift writing the saved underflow bits as copies of the bit itself.
ArithmeticEncoder_shift_same_bit(self) ==
    LET Saved(w2) ==
            IF w2.exc # NoExc THEN Result([self EXCEPT !.output = w2.obj], 0, w2.exc)
            ELSE Result([self EXCEPT !.output = w2.obj, !.num_underflow = 0], 0, NoExc)
        Top(bit, w1) ==
            IF w1.exc # NoExc THEN Result([self EXCEPT !.output = w1.obj], 0, w1.exc)
            ELSE Saved(write_times(w1.obj, bit, self.num_underflow))
        Bit(bit) == Top(bit, BitOutputStream_write(self.output, bit))
    IN Bit(ShiftRight(self.low, self.num_state_bits - 1))

ArithmeticEncoder_shift(self) ==
    LET Saved(w2) ==
            IF w2.exc # NoExc THEN Result([self EXCEPT !.output = w2.obj], 0, w2.exc)
            ELSE Result([self EXCEPT !.output = w2.obj, !.num_underflow = 0], 0, NoExc)
        Top(bit, w1) ==
            IF w1.exc # NoExc THEN Result([self EXCEPT !.output = w1.obj], 0, w1.exc)
            ELSE Saved(write_times(w1.obj, BitXor(bit, 1), self.num_underflow))
        Bit(bit) == Top(bit, BitOutputStream_write(self.output, bit))
    IN Bit(ShiftRight(self.low, self.num_state_bits - 1))

ArithmeticEncoder_underflow(self) ==
    Result([self EXCEPT !.num_underflow = @ + 1], 0, NoExc)

\* finish() writing a 0 bit in place of the 1.
ArithmeticEncoder_finish_zero(self) ==
    LET Done(w) == Result([self EXCEPT !.output = w.obj], 0, w.exc)
    IN Done(BitOutputStream_write(self.output, 0))

ArithmeticEncoder_finish(self) ==
    LET Done(w) == Result([self EXCEPT !.output = w.obj], 0, w.exc)
    IN Done(BitOutputStream_write(self.output, 1))

(***************************************************************************)
(* ArithmeticDecoder                                                       *)
(***************************************************************************)
\* read_code_bit taking the end of the stream as a 1 bit.
ArithmeticDecoder_read_code_bit_eof_one(self) ==
    LET Bit(r) == Result([self EXCEPT !.input = r.obj],
                         IF r.ret = -1 THEN 1 ELSE r.ret, r.exc)
    IN Bit(BitInputStream_read(self.input))

ArithmeticDecoder_read_code_bit(self) ==
    LET Bit(r) == Result([self EXCEPT !.input = r.obj],
                         IF r.ret = -1 THEN 0 ELSE r.ret, r.exc)
    IN Bit(BitInputStream_read(self.input))

\* for _ in range(n): code = code << 1 | read_code_bit()
RECURSIVE fill_code(_, _)
fill_code(self, n) ==
    IF n <= 0 THEN Result(self, 0, NoExc)
    ELSE LET Go(b) ==
                 IF b.exc # NoExc THEN b
                 ELSE fill_code([b.obj EXCEPT !.code = BitOr(ShiftLeft(@, 1), b.ret)],
                                n - 1)
         IN Go(ArithmeticDecoder_read_code_bit(self))

ArithmeticDecoder(numbits, bitin) ==
    fill_code(Extend(ArithmeticCoderBase(numbits),
                     [kind |-> "dec", input |-> bitin, code |-> 0]),
              numbits).obj

\* ArithmeticDecoder(x): the constructor called with one argument, which binds
\* numbits and leaves bitin without a value.
ArithmeticDecoder_1(numbits) ==
    Result(NoObject, 0,
           "TypeError: ArithmeticDecoder.__init__() missing 1 required positional argument: 'bitin'")

\* shift() without the state mask: the top bit of the code is kept.
ArithmeticDecoder_shift_unmasked(self) ==
    LET Go(b) ==
            IF b.exc # NoExc THEN b
            ELSE Result([b.obj EXCEPT !.code = BitOr(ShiftLeft(self.code, 1), b.ret)],
                        0, NoExc)
    IN Go(ArithmeticDecoder_read_code_bit(self))

ArithmeticDecoder_shift(self) ==
    LET Go(b) ==
            IF b.exc # NoExc THEN b
            ELSE Result([b.obj EXCEPT !.code =
                            BitOr(BitAnd(ShiftLeft(self.code, 1), self.state_mask),
                                  b.ret)],
                        0, NoExc)
    IN Go(ArithmeticDecoder_read_code_bit(self))

\* The decoder's underflow dropping the top bit of code as shift does.
ArithmeticDecoder_underflow_drops_top(self) ==
    LET Go(b) ==
            IF b.exc # NoExc THEN b
            ELSE Result([b.obj EXCEPT !.code =
                            BitOr(BitAnd(ShiftLeft(self.code, 1), self.state_mask),
                                  b.ret)],
                        0, NoExc)
    IN Go(ArithmeticDecoder_read_code_bit(self))

ArithmeticDecoder_underflow(self) ==
    LET Go(b) ==
            IF b.exc # NoExc THEN b
            ELSE Result([b.obj EXCEPT !.code =
                            BitOr(BitOr(BitAnd(self.code, self.half_range),
                                        BitAnd(ShiftLeft(self.code, 1),
                                               ShiftRight(self.state_mask, 1))),
                                  b.ret)],
                        0, NoExc)
    IN Go(ArithmeticDecoder_read_code_bit(self))

(***************************************************************************)
(* ArithmeticCoderBase.update, with the subclass's shift and underflow.    *)
(***************************************************************************)
shift(self) ==
    LET Note(r) == Result([r.obj EXCEPT !.calls = Append(@, "s")], r.ret, r.exc)
    IN Note(IF self.kind = "enc" THEN ArithmeticEncoder_shift(self)
            ELSE ArithmeticDecoder_shift(self))

underflow(self) ==
    LET Note(r) == Result([r.obj EXCEPT !.calls = Append(@, "u")], r.ret, r.exc)
    IN Note(IF self.kind = "enc" THEN ArithmeticEncoder_underflow(self)
            ELSE ArithmeticDecoder_underflow(self))

\* The first loop of update as an if: one shift at most.
shift_loop_once(self) ==
    IF BitAnd(BitXor(self.low, self.high), self.half_range) # 0
    THEN Result(self, 0, NoExc)
    ELSE LET Go(s) ==
                 IF s.exc # NoExc THEN s
                 ELSE Result([s.obj EXCEPT
                         !.low = BitAnd(ShiftLeft(@, 1), self.state_mask),
                         !.high = BitOr(BitAnd(ShiftLeft(@, 1), self.state_mask), 1)],
                         0, NoExc)
         IN Go(shift(self))

\* While low and high have the same top bit value, shift them out.
RECURSIVE shift_loop(_)
shift_loop(self) ==
    IF BitAnd(BitXor(self.low, self.high), self.half_range) # 0
    THEN Result(self, 0, NoExc)
    ELSE LET Go(s) ==
                 IF s.exc # NoExc THEN s
                 ELSE shift_loop([s.obj EXCEPT
                         !.low = BitAnd(ShiftLeft(@, 1), self.state_mask),
                         !.high = BitOr(BitAnd(ShiftLeft(@, 1), self.state_mask), 1)])
         IN Go(shift(self))

\* The second loop of update left out.
underflow_loop_skipped(self) == Result(self, 0, NoExc)

\* While low's top two bits are 01 and high's are 10, delete the second highest bit.
RECURSIVE underflow_loop(_)
underflow_loop(self) ==
    IF BitAnd(BitAnd(self.low, BitNot(self.high)), self.quarter_range) = 0
    THEN Result(self, 0, NoExc)
    ELSE LET Go(u) ==
                 IF u.exc # NoExc THEN u
                 ELSE underflow_loop([u.obj EXCEPT
                         !.low = BitXor(ShiftLeft(@, 1), self.half_range),
                         !.high = BitOr(BitOr(ShiftLeft(BitXor(@, self.half_range), 1),
                                              self.half_range), 1)])
         IN Go(underflow(self))

\* What a call with a coder and a frequency table gives: both objects after the
\* call, the value returned and the exception raised.
Result2(self, table, ret, exc) ==
    [obj |-> self, freqs |-> table, ret |-> ret, exc |-> exc]

\* update refusing a total equal to maximum_total (>= for >).
update_range_total_ge(self, range, total, symlow, symhigh) ==
    LET Underflowed(u) == Result2(u.obj, symhigh.obj, 0, u.exc)
        Shifted(s) ==
            IF s.exc # NoExc THEN Result2(s.obj, symhigh.obj, 0, s.exc)
            ELSE Underflowed(underflow_loop(s.obj))
    IN IF symlow.ret = symhigh.ret
       THEN Result2(self, symhigh.obj, 0, "ValueError: Symbol has zero frequency")
       ELSE IF total.ret >= self.maximum_total
       THEN Result2(self, symhigh.obj, 0,
                    "ValueError: Cannot code symbol because total is too large")
       ELSE Shifted(shift_loop([self EXCEPT
                !.low = self.low + (symlow.ret * range) \div total.ret,
                !.high = self.low + (symhigh.ret * range) \div total.ret - 1]))

\* update without the zero-frequency check: the division raises for a total
\* of 0, and otherwise the range is narrowed to high = low - 1.
update_range_no_zero_check(self, range, total, symlow, symhigh) ==
    LET Underflowed(u) == Result2(u.obj, symhigh.obj, 0, u.exc)
        Shifted(s) ==
            IF s.exc # NoExc THEN Result2(s.obj, symhigh.obj, 0, s.exc)
            ELSE Underflowed(underflow_loop(s.obj))
    IN IF total.ret > self.maximum_total
       THEN Result2(self, symhigh.obj, 0,
                    "ValueError: Cannot code symbol because total is too large")
       ELSE IF total.ret = 0
       THEN Result2(self, symhigh.obj, 0,
                    "ZeroDivisionError: integer division or modulo by zero")
       ELSE Shifted(shift_loop([self EXCEPT
                !.low = self.low + (symlow.ret * range) \div total.ret,
                !.high = self.low + (symhigh.ret * range) \div total.ret - 1]))

\* The frequency table values check and what follows it in update: self is the
\* coder, range its high - low + 1, and total, symlow and symhigh are what
\* freqs.get_total(), get_low(symbol) and get_high(symbol) gave.
\* update narrowing to the symbol's share of the range less its last value.
update_range_short(self, range, total, symlow, symhigh) ==
    LET Underflowed(u) == Result2(u.obj, symhigh.obj, 0, u.exc)
        Shifted(s) ==
            IF s.exc # NoExc THEN Result2(s.obj, symhigh.obj, 0, s.exc)
            ELSE Underflowed(underflow_loop(s.obj))
    IN IF symlow.ret = symhigh.ret
       THEN Result2(self, symhigh.obj, 0, "ValueError: Symbol has zero frequency")
       ELSE IF total.ret > self.maximum_total
       THEN Result2(self, symhigh.obj, 0,
                    "ValueError: Cannot code symbol because total is too large")
       ELSE Shifted(shift_loop([self EXCEPT
                !.low = self.low + (symlow.ret * range) \div total.ret,
                !.high = self.low + (symhigh.ret * range) \div total.ret - 2]))

\* update storing the narrowed low and high before the check of the total.
update_range_narrows_first(self, range, total, symlow, symhigh) ==
    LET Underflowed(u) == Result2(u.obj, symhigh.obj, 0, u.exc)
        Shifted(s) ==
            IF s.exc # NoExc THEN Result2(s.obj, symhigh.obj, 0, s.exc)
            ELSE Underflowed(underflow_loop(s.obj))
        Narrowed ==
            [self EXCEPT
                !.low = self.low + (symlow.ret * range) \div total.ret,
                !.high = self.low + (symhigh.ret * range) \div total.ret - 1]
    IN IF symlow.ret = symhigh.ret
       THEN Result2(self, symhigh.obj, 0, "ValueError: Symbol has zero frequency")
       ELSE IF total.ret > self.maximum_total
       THEN Result2(Narrowed, symhigh.obj, 0,
                    "ValueError: Cannot code symbol because total is too large")
       ELSE Shifted(shift_loop(Narrowed))

update_range(self, range, total, symlow, symhigh) ==
    LET Underflowed(u) == Result2(u.obj, symhigh.obj, 0, u.exc)
        Shifted(s) ==
            IF s.exc # NoExc THEN Result2(s.obj, symhigh.obj, 0, s.exc)
            ELSE Underflowed(underflow_loop(s.obj))
    IN IF symlow.ret = symhigh.ret
       THEN Result2(self, symhigh.obj, 0, "ValueError: Symbol has zero frequency")
       ELSE IF total.ret > self.maximum_total
       THEN Result2(self, symhigh.obj, 0,
                    "ValueError: Cannot code symbol because total is too large")
       ELSE Shifted(shift_loop([self EXCEPT
                !.low = self.low + (symlow.ret * range) \div total.ret,
                !.high = self.low + (symhigh.ret * range) \div total.ret - 1]))

\* freqs0 is the table a CheckedFrequencyTable wraps.
update(self0, freqs0, symbol) ==
    LET WithHigh(self, range, total, symlow, symhigh) ==
            IF symhigh.exc # NoExc THEN Result2(self, symhigh.obj, 0, symhigh.exc)
            ELSE update_range(self, range, total, symlow, symhigh)
        WithLow(self, range, total, symlow) ==
            IF symlow.exc # NoExc THEN Result2(self, symlow.obj, 0, symlow.exc)
            ELSE WithHigh(self, range, total, symlow,
                          Checked_get_high(symlow.obj, symbol))
        WithTotal(self, range, total) ==
            IF total.exc # NoExc THEN Result2(self, total.obj, 0, total.exc)
            ELSE WithLow(self, range, total, Checked_get_low(total.obj, symbol))
        WithRange(self, range) ==
            IF ~(self.minimum_range <= range /\ range <= self.full_range)
            THEN Result2(self, freqs0, 0, "AssertionError: Range out of range")
            ELSE WithTotal(self, range, Checked_get_total(freqs0))
        Start(self) ==
            IF self.low >= self.high \/ BitAnd(self.low, self.state_mask) # self.low
                                     \/ BitAnd(self.high, self.state_mask) # self.high
            THEN Result2(self, freqs0, 0, "AssertionError: Low or high out of range")
            ELSE WithRange(self, self.high - self.low + 1)
    IN Start([self0 EXCEPT !.calls = << >>])

ArithmeticEncoder_write(self, table, symbol) == update(self, table, symbol)

\* A kind of binary search: the highest symbol such that get_low(symbol) <= value.
\* The result's ret is <<start, end>>; its obj is the table after the get_low calls.
\* The search of read taking the lower half also when low(middle) = value.
RECURSIVE search_loop_ge(_, _, _, _)
search_loop_ge(table, value, start, end) ==
    IF ~(end - start > 1) THEN Result(table, <<start, end>>, NoExc)
    ELSE LET Go(middle, l) ==
                 IF l.exc # NoExc THEN l
                 ELSE IF l.ret >= value THEN search_loop_ge(l.obj, value, start, middle)
                 ELSE search_loop_ge(l.obj, value, middle, end)
             Mid(middle) == Go(middle, Checked_get_low(table, middle))
         IN Mid(ShiftRight(start + end, 1))

RECURSIVE search_loop(_, _, _, _)
search_loop(table, value, start, end) ==
    IF ~(end - start > 1) THEN Result(table, <<start, end>>, NoExc)
    ELSE LET Go(middle, l) ==
                 IF l.exc # NoExc THEN l
                 ELSE IF l.ret > value THEN search_loop(l.obj, value, start, middle)
                 ELSE search_loop(l.obj, value, middle, end)
             Mid(middle) == Go(middle, Checked_get_low(table, middle))
         IN Mid(ShiftRight(start + end, 1))

\* freqs0 is the table a CheckedFrequencyTable wraps.
ArithmeticDecoder_read(self, freqs0) ==
    LET Updated(symbol, u) ==
            IF u.exc # NoExc THEN u
            ELSE IF ~(u.obj.low <= u.obj.code /\ u.obj.code <= u.obj.high)
            THEN Result2(u.obj, u.freqs, 0, "AssertionError: Code out of range")
            ELSE Result2(u.obj, u.freqs, symbol, NoExc)
        WithHigh(total, range, offset, symbol, symlow, symhigh) ==
            IF symhigh.exc # NoExc THEN Result2(self, symhigh.obj, 0, symhigh.exc)
            ELSE IF ~((symlow.ret * range) \div total <= offset
                      /\ offset < (symhigh.ret * range) \div total)
            THEN Result2(self, symhigh.obj, 0, "AssertionError")
            ELSE Updated(symbol, update(self, symhigh.obj, symbol))
        WithLow(total, range, offset, symbol, symlow) ==
            IF symlow.exc # NoExc THEN Result2(self, symlow.obj, 0, symlow.exc)
            ELSE WithHigh(total, range, offset, symbol, symlow,
                          Checked_get_high(symlow.obj, symbol))
        Found(total, range, offset, found) ==
            IF found.exc # NoExc THEN Result2(self, found.obj, 0, found.exc)
            ELSE IF ~(found.ret[1] + 1 = found.ret[2])
            THEN Result2(self, found.obj, 0, "AssertionError")
            ELSE WithLow(total, range, offset, found.ret[1],
                         Checked_get_low(found.obj, found.ret[1]))
        Search(total, range, offset, value, limit) ==
            IF limit.exc # NoExc THEN Result2(self, limit.obj, 0, limit.exc)
            ELSE Found(total, range, offset, search_loop(limit.obj, value, 0, limit.ret))
        Scaled(total, range, offset, value) ==
            IF ~((value * range) \div total.ret <= offset)
            THEN Result2(self, total.obj, 0, "AssertionError")
            ELSE IF ~(0 <= value /\ value < total.ret)
            THEN Result2(self, total.obj, 0, "AssertionError")
            ELSE Search(total.ret, range, offset, value,
                        Checked_get_symbol_limit(total.obj))
        Scale(total, range, offset) ==
            IF total.ret = 0 THEN Result2(self, total.obj, 0, "ZeroDivisionError")
            ELSE Scaled(total, range, offset, ((offset + 1) * total.ret - 1) \div range)
        WithTotal(total) ==
            IF total.exc # NoExc THEN Result2(self, total.obj, 0, total.exc)
            ELSE IF total.ret > self.maximum_total
            THEN Result2(self, total.obj, 0,
                         "ValueError: Cannot decode symbol because total is too large")
            ELSE Scale(total, self.high - self.low + 1, self.code - self.low)
    IN WithTotal(Checked_get_total(freqs0))

(***************************************************************************)
(* A coding session with one frequency table: the caller writes symbols,   *)
(* finishes the encoder and closes the bit stream, then constructs a       *)
(* decoder over the bytes written and reads the symbols back with the same *)
(* table (arithmetic-compress.py, compress, and its mirror).               *)
(***************************************************************************)
Call(op, symbol, pre, r) ==
    [op |-> op, symbol |-> symbol, pre |-> pre, ret |-> r.ret, exc |-> r.exc]

NoCall == [op |-> "init", symbol |-> 0, pre |-> NoObject, ret |-> 0, exc |-> NoExc]

\* The tables a caller can construct: any frequencies, also all zero or with a
\* total beyond maximum_total, and the flat tables.
SimpleTables ==
    { SimpleFrequencyTable(f) :
        f \in UNION { [1..n -> 0..MaxFreq] : n \in 1..MaxLimit } }

FlatTables == { FlatFrequencyTable(n) : n \in 1..MaxLimit }

\* The parts of the state a session does not use.
NoBitStreams == outstream = NoObject /\ instream = NoObject /\ bits = << >> /\ got = << >>
NoFiles == infile = << >> /\ outfile = << >>
NoPpm == model = NoObject /\ history = << >>

Init ==
    /\ freqs \in SimpleTables \cup FlatTables
    /\ \E numbits \in 1..MaxStateBits : enc = ArithmeticEncoder(numbits, BitOutputStream)
    /\ dec = NoObject
    /\ last = NoCall
    /\ written = << >>
    /\ tables = << >>
    /\ decoded = << >>
    /\ pc = "encoding"
    /\ NoBitStreams /\ NoFiles /\ NoPpm

\* enc.write(freqs, symbol), with any symbol, also one of zero frequency or
\* one past the table's limit.
Write(symbol) ==
    /\ pc = "encoding"
    /\ Len(written) < MaxLen
    /\ \E r \in {ArithmeticEncoder_write(enc, freqs, symbol)} :
          /\ enc' = r.obj
          /\ freqs' = r.freqs
          /\ last' = Call("write", symbol, enc, r)
          /\ written' = IF r.exc = NoExc THEN Append(written, symbol) ELSE written
          /\ tables' = IF r.exc = NoExc THEN Append(tables, freqs) ELSE tables
    /\ UNCHANGED <<dec, decoded, pc, bitVars, fileVars, ppmVars>>

\* enc.finish()
Finish ==
    /\ pc = "encoding"
    /\ \E r \in {ArithmeticEncoder_finish(enc)} :
          /\ enc' = r.obj
          /\ last' = Call("finish", 0, enc, r)
    /\ pc' = "finished"
    /\ UNCHANGED <<freqs, dec, written, tables, decoded, bitVars, fileVars, ppmVars>>

\* bitout.close()
Close ==
    /\ pc = "finished"
    /\ \E r \in {BitOutputStream_close(enc.output)} :
          /\ enc' = [enc EXCEPT !.output = r.obj]
          /\ last' = Call("close", 0, enc, r)
    /\ pc' = "closed"
    /\ UNCHANGED <<freqs, dec, written, tables, decoded, bitVars, fileVars, ppmVars>>

\* dec = ArithmeticDecoder(num_state_bits, BitInputStream(the bytes written))
NewDecoder ==
    /\ pc = "closed"
    /\ dec' = ArithmeticDecoder(enc.num_state_bits,
                                BitInputStream(enc.output.output.bytes))
    /\ last' = Call("ArithmeticDecoder", 0, NoObject, Result(0, 0, NoExc))
    /\ pc' = "decoding"
    /\ UNCHANGED <<freqs, enc, written, tables, decoded, bitVars, fileVars, ppmVars>>

\* dec.read(freqs), once per symbol written
Read ==
    /\ pc = "decoding"
    /\ Len(decoded) < Len(written)
    /\ \E r \in {ArithmeticDecoder_read(dec, freqs)} :
          /\ dec' = r.obj
          /\ freqs' = r.freqs
          /\ last' = Call("read", 0, dec, r)
          /\ decoded' = IF r.exc = NoExc THEN Append(decoded, r.ret) ELSE decoded
    /\ UNCHANGED <<enc, written, tables, pc, bitVars, fileVars, ppmVars>>

Next ==
    \/ \E symbol \in 0..MaxLimit : Write(symbol)
    \/ Finish
    \/ Close
    \/ NewDecoder
    \/ Read

Spec == Init /\ [][Next]_vars

(***************************************************************************)
(* A decoder constructed over an arbitrary byte stream (not one an encoder *)
(* wrote: valid, truncated, empty or any bits), reading with the caller's  *)
(* table.                                                                  *)
(***************************************************************************)
\* The byte values of the arbitrary input streams: 0x00, 0x0F, 0x33, 0x55 and
\* their complements 0xFF, 0xF0, 0xCC, 0xAA.
ByteValues == {0, 15, 51, 85, 170, 204, 240, 255}

InputStreams == UNION { [1..n -> ByteValues] : n \in 0..MaxInputBytes }

InitDec ==
    /\ freqs \in SimpleTables \cup FlatTables
    /\ last = NoCall
    /\ written = << >>
    /\ tables = << >>
    /\ decoded = << >>
    /\ enc = NoObject
    /\ NoBitStreams /\ NoFiles /\ NoPpm
    /\ pc = "reading"
    /\ \E numbits \in 1..MaxStateBits : \E bytes \in InputStreams :
          dec = ArithmeticDecoder(numbits, BitInputStream(bytes))

\* dec.read(freqs)
DecRead ==
    /\ pc = "reading"
    /\ \E r \in {ArithmeticDecoder_read(dec, freqs)} :
          /\ dec' = r.obj
          /\ freqs' = r.freqs
          /\ last' = Call("read", 0, dec, r)
    /\ UNCHANGED <<enc, written, tables, decoded, pc, bitVars, fileVars, ppmVars>>

NextDec == DecRead

SpecDec == InitDec /\ [][NextDec]_vars

(***************************************************************************)
(* A coding session whose table changes from one symbol to the next: the   *)
(* caller passes any table of a small family to each write, and the        *)
(* decoder reads each symbol with the table it was written with.           *)
(***************************************************************************)
\* A flat table and simple tables of skewed frequencies, one with a symbol of
\* zero frequency.
SwitchTables ==
    { FlatFrequencyTable(2),
      SimpleFrequencyTable(<<1, 2>>),
      SimpleFrequencyTable(<<2, 1>>),
      SimpleFrequencyTable(<<1, 0, 1>>) }

InitSwitch ==
    /\ freqs \in SwitchTables
    /\ \E numbits \in 1..MaxStateBits : enc = ArithmeticEncoder(numbits, BitOutputStream)
    /\ dec = NoObject
    /\ last = NoCall
    /\ written = << >>
    /\ tables = << >>
    /\ decoded = << >>
    /\ pc = "encoding"
    /\ NoBitStreams /\ NoFiles /\ NoPpm

\* enc.write(table, symbol)
WriteWith(table, symbol) ==
    /\ pc = "encoding"
    /\ Len(written) < MaxLen
    /\ \E r \in {ArithmeticEncoder_write(enc, table, symbol)} :
          /\ enc' = r.obj
          /\ freqs' = r.freqs
          /\ last' = Call("write", symbol, enc, r)
          /\ written' = IF r.exc = NoExc THEN Append(written, symbol) ELSE written
          /\ tables' = IF r.exc = NoExc THEN Append(tables, table) ELSE tables
    /\ UNCHANGED <<dec, decoded, pc, bitVars, fileVars, ppmVars>>

\* dec.read(table), with the table of the next symbol written
ReadWith ==
    /\ pc = "decoding"
    /\ Len(decoded) < Len(written)
    /\ \E r \in {ArithmeticDecoder_read(dec, tables[Len(decoded) + 1])} :
          /\ dec' = r.obj
          /\ freqs' = r.freqs
          /\ last' = Call("read", 0, dec, r)
          /\ decoded' = IF r.exc = NoExc THEN Append(decoded, r.ret) ELSE decoded
    /\ UNCHANGED <<enc, written, tables, pc, bitVars, fileVars, ppmVars>>

NextSwitch ==
    \/ \E table \in SwitchTables : \E symbol \in 0..2 : WriteWith(table, symbol)
    \/ Finish
    \/ Close
    \/ NewDecoder
    \/ ReadWith

SpecSwitch == InitSwitch /\ [][NextSwitch]_vars

(***************************************************************************)
(* The sessions with a table per symbol, decoded from the file the encoder *)
(* wrote or from that file followed by zero bytes: the file is then the    *)
(* longer one with its trailing zeros cut off.                             *)
(***************************************************************************)
\* n zero bytes.
ZeroBytes(n) == [i \in 1..n |-> 0]

\* dec = ArithmeticDecoder(num_state_bits, BitInputStream(the bytes written
\* followed by n zero bytes))
NewDecoderPadded(n) ==
    /\ pc = "closed"
    /\ dec' = ArithmeticDecoder(enc.num_state_bits,
                 BitInputStream(enc.output.output.bytes \o ZeroBytes(n)))
    /\ last' = Call("ArithmeticDecoder", n, NoObject, Result(0, 0, NoExc))
    /\ pc' = "decoding"
    /\ UNCHANGED <<freqs, enc, written, tables, decoded, bitVars, fileVars, ppmVars>>

NextFinish ==
    \/ \E table \in SwitchTables : \E symbol \in 0..2 : WriteWith(table, symbol)
    \/ Finish
    \/ Close
    \/ \E n \in 0..1 : NewDecoderPadded(n)
    \/ ReadWith

SpecFinish == InitSwitch /\ [][NextFinish]_vars

(***************************************************************************)
(* A decoder over an arbitrary byte stream reading with a table the caller *)
(* chooses anew for every read, tables of three symbols with               *)
(* zero-frequency symbols in any place among them.                         *)
(***************************************************************************)
ReadTables ==
    { SimpleFrequencyTable(<<1, 0, 1>>), SimpleFrequencyTable(<<0, 1, 1>>),
      SimpleFrequencyTable(<<1, 1, 0>>), SimpleFrequencyTable(<<0, 1, 0>>),
      SimpleFrequencyTable(<<2, 0, 1>>), SimpleFrequencyTable(<<1, 1>>) }

InitSelect ==
    /\ freqs = NoObject
    /\ last = NoCall
    /\ written = << >>
    /\ tables = << >>
    /\ decoded = << >>
    /\ enc = NoObject
    /\ NoBitStreams /\ NoFiles /\ NoPpm
    /\ pc = "reading"
    /\ \E numbits \in 1..MaxStateBits : \E bytes \in InputStreams :
          dec = ArithmeticDecoder(numbits, BitInputStream(bytes))

\* dec.read(table)
DecReadWith(table) ==
    /\ pc = "reading"
    /\ \E r \in {ArithmeticDecoder_read(dec, table)} :
          /\ dec' = r.obj
          /\ freqs' = r.freqs
          /\ last' = Call("read", 0, dec, r)
    /\ UNCHANGED <<enc, written, tables, decoded, pc, bitVars, fileVars, ppmVars>>

NextSelect == \E table \in ReadTables : DecReadWith(table)

SpecSelect == InitSelect /\ [][NextSelect]_vars

(***************************************************************************)
(* A CheckedFrequencyTable around an inner table that may be faulty: a     *)
(* SimpleFrequencyTable object whose fields were assigned values that      *)
(* break the laws of a frequency table.  freqs is the inner table.         *)
(***************************************************************************)
\* Inner tables breaking one law each: low(0) = 1; high(limit - 1) # total;
\* low(1) > high(1); a negative frequency; no symbol at all; a negative
\* total; a total that is not the sum of the frequencies.
FaultyTables ==
    { [kind |-> "simple", frequencies |-> <<1, 1>>, total |-> 3,
       cumulative |-> <<1, 2, 3>>],
      [kind |-> "simple", frequencies |-> <<1, 1>>, total |-> 3,
       cumulative |-> <<0, 1, 2>>],
      [kind |-> "simple", frequencies |-> <<1, 1>>, total |-> 2,
       cumulative |-> <<0, 2, 1>>],
      [kind |-> "simple", frequencies |-> <<-1, 2>>, total |-> 1,
       cumulative |-> None],
      [kind |-> "simple", frequencies |-> << >>, total |-> 0,
       cumulative |-> None],
      [kind |-> "simple", frequencies |-> <<1>>, total |-> -1,
       cumulative |-> <<0, 1>>],
      [kind |-> "simple", frequencies |-> <<1, 1>>, total |-> 3,
       cumulative |-> None] }

InitChecked ==
    /\ freqs \in SimpleTables \cup FlatTables \cup FaultyTables
    /\ last = NoCall
    /\ enc = NoObject
    /\ dec = NoObject
    /\ written = << >>
    /\ tables = << >>
    /\ decoded = << >>
    /\ pc = "checked"
    /\ NoBitStreams /\ NoFiles /\ NoPpm

\* A call of a method of CheckedFrequencyTable(freqs) that returned r.
CheckedCall(op, symbol, freq, r) ==
    /\ pc = "checked"
    /\ freqs' = r.obj
    /\ last' = Extend(Call(op, symbol, freqs, r), [freq |-> freq])
    /\ UNCHANGED <<enc, dec, written, tables, decoded, pc, bitVars, fileVars, ppmVars>>

CheckedGetSymbolLimit ==
    CheckedCall("get_symbol_limit", 0, 0, Checked_get_symbol_limit(freqs))

CheckedGet(symbol) == CheckedCall("get", symbol, 0, Checked_get(freqs, symbol))

CheckedGetTotal == CheckedCall("get_total", 0, 0, Checked_get_total(freqs))

CheckedGetLow(symbol) ==
    CheckedCall("get_low", symbol, 0, Checked_get_low(freqs, symbol))

CheckedGetHigh(symbol) ==
    CheckedCall("get_high", symbol, 0, Checked_get_high(freqs, symbol))

CheckedSet(symbol, freq) ==
    CheckedCall("set", symbol, freq, Checked_set(freqs, symbol, freq))

CheckedIncrement(symbol) ==
    /\ get_total(freqs).ret < MaxTableTotal
    /\ CheckedCall("increment", symbol, 0, Checked_increment(freqs, symbol))

NextChecked ==
    \/ CheckedGetSymbolLimit
    \/ \E symbol \in -1..MaxLimit : CheckedGet(symbol)
    \/ CheckedGetTotal
    \/ \E symbol \in -1..MaxLimit : CheckedGetLow(symbol)
    \/ \E symbol \in -1..MaxLimit : CheckedGetHigh(symbol)
    \/ \E symbol \in -1..MaxLimit : \E freq \in {-1, 1} : CheckedSet(symbol, freq)
    \/ \E symbol \in -1..MaxLimit : CheckedIncrement(symbol)

SpecChecked == InitChecked /\ [][NextChecked]_vars

(***************************************************************************)
(* A frequency table used on its own: any interleaving of set, increment,  *)
(* get_low and get_high calls, with symbols in and out of range.  pc tells *)
(* whether the table was modified since its construction and whether a     *)
(* modification found the cumulative cache built ("invalidated").          *)
(***************************************************************************)
InitTable ==
    /\ freqs \in SimpleTables \cup FlatTables
    /\ last = NoCall
    /\ enc = NoObject
    /\ dec = NoObject
    /\ written = << >>
    /\ tables = << >>
    /\ decoded = << >>
    /\ pc = "constructed"
    /\ NoBitStreams /\ NoFiles /\ NoPpm

InTableSession == pc \in {"constructed", "modified", "invalidated"}

Modified(r) ==
    IF r.exc # NoExc \/ pc = "invalidated" THEN pc
    ELSE IF freqs.kind = "simple" /\ freqs.cumulative # None THEN "invalidated"
    ELSE "modified"

\* freqs.set(symbol, freq)
TableSet(symbol, freq) ==
    /\ InTableSession
    /\ \E r \in {set(freqs, symbol, freq)} :
          /\ freqs' = r.obj
          /\ last' = Call("set", symbol, freqs, r)
          /\ pc' = Modified(r)
    /\ UNCHANGED <<enc, dec, written, tables, decoded, bitVars, fileVars, ppmVars>>

\* freqs.increment(symbol)
TableIncrement(symbol) ==
    /\ InTableSession
    /\ get_total(freqs).ret < MaxTableTotal
    /\ \E r \in {increment(freqs, symbol)} :
          /\ freqs' = r.obj
          /\ last' = Call("increment", symbol, freqs, r)
          /\ pc' = Modified(r)
    /\ UNCHANGED <<enc, dec, written, tables, decoded, bitVars, fileVars, ppmVars>>

\* freqs.get_low(symbol)
TableGetLow(symbol) ==
    /\ InTableSession
    /\ \E r \in {get_low(freqs, symbol)} :
          /\ freqs' = r.obj
          /\ last' = Call("get_low", symbol, freqs, r)
    /\ UNCHANGED <<enc, dec, written, tables, decoded, pc, bitVars, fileVars, ppmVars>>

\* freqs.get_high(symbol)
TableGetHigh(symbol) ==
    /\ InTableSession
    /\ \E r \in {get_high(freqs, symbol)} :
          /\ freqs' = r.obj
          /\ last' = Call("get_high", symbol, freqs, r)
    /\ UNCHANGED <<enc, dec, written, tables, decoded, pc, bitVars, fileVars, ppmVars>>

NextTable ==
    \/ \E symbol \in -1..MaxLimit : \E freq \in -1..MaxFreq : TableSet(symbol, freq)
    \/ \E symbol \in -1..MaxLimit : TableIncrement(symbol)
    \/ \E symbol \in -1..MaxLimit : TableGetLow(symbol)
    \/ \E symbol \in -1..MaxLimit : TableGetHigh(symbol)

SpecTable == InitTable /\ [][NextTable]_vars

(***************************************************************************)
(* The bit streams used on their own: bits are written to a                *)
(* BitOutputStream, it is closed, and a BitInputStream over the bytes it   *)
(* produced is read past its end.                                          *)
(***************************************************************************)
InitBits ==
    /\ outstream = BitOutputStream
    /\ instream = NoObject
    /\ bits = << >>
    /\ got = << >>
    /\ last = NoCall
    /\ freqs = NoObject
    /\ enc = NoObject
    /\ dec = NoObject
    /\ written = << >>
    /\ tables = << >>
    /\ decoded = << >>
    /\ pc = "writing"
    /\ NoFiles /\ NoPpm

\* outstream.write(b), with a bit or with 2
BitWrite(b) ==
    /\ pc = "writing"
    /\ Len(bits) < MaxBits
    /\ \E r \in {BitOutputStream_write(outstream, b)} :
          /\ outstream' = r.obj
          /\ bits' = IF r.exc = NoExc THEN Append(bits, b) ELSE bits
          /\ last' = Call("write", b, outstream, r)
    /\ UNCHANGED <<instream, got, pc, freqs, enc, dec, written, tables, decoded,
                   fileVars, ppmVars>>

\* outstream.close()
BitClose ==
    /\ pc = "writing"
    /\ \E r \in {BitOutputStream_close(outstream)} :
          /\ outstream' = r.obj
          /\ last' = Call("close", 0, outstream, r)
    /\ pc' = "closed"
    /\ UNCHANGED <<instream, bits, got, freqs, enc, dec, written, tables, decoded,
                   fileVars, ppmVars>>

\* instream = BitInputStream(the bytes written)
BitOpen ==
    /\ pc = "closed"
    /\ instream' = BitInputStream(outstream.output.bytes)
    /\ last' = Call("BitInputStream", 0, NoObject, Result(0, 0, NoExc))
    /\ pc' = "reading"
    /\ UNCHANGED <<outstream, bits, got, freqs, enc, dec, written, tables, decoded,
                   fileVars, ppmVars>>

\* instream.read(), until two reads past the end of the stream
BitRead ==
    /\ pc = "reading"
    /\ Len(got) < 8 * Len(outstream.output.bytes) + 2
    /\ \E r \in {BitInputStream_read(instream)} :
          /\ instream' = r.obj
          /\ got' = Append(got, r.ret)
          /\ last' = Call("read", 0, instream, r)
    /\ UNCHANGED <<outstream, bits, pc, freqs, enc, dec, written, tables, decoded,
                   fileVars, ppmVars>>

NextBits ==
    \/ \E b \in 0..2 : BitWrite(b)
    \/ BitClose
    \/ BitOpen
    \/ BitRead

SpecBits == InitBits /\ [][NextBits]_vars

(***************************************************************************)
(* The adaptive front end (adaptive-arithmetic-compress.py and             *)
(* adaptive-arithmetic-decompress.py): compress codes the input file byte  *)
(* by byte, the main program closes the bit stream, and decompress runs on *)
(* the bytes produced.                                                     *)
(***************************************************************************)
\* The EOF symbol (256 in the source).
EofSymbol == NumByteValues

Files == UNION { [1..n -> 0..(NumByteValues - 1)] : n \in 0..MaxFileLen }

File(data) == [data |-> data, pos |-> 0]

\* inp.read(1): the next byte, or nothing at the end of the file.
File_read(self) ==
    IF self.pos < Len(self.data)
    THEN Result([self EXCEPT !.pos = @ + 1], <<self.data[self.pos + 1]>>, NoExc)
    ELSE Result(self, << >>, NoExc)

\* SimpleFrequencyTable(initfreqs) with initfreqs a FrequencyTable
SimpleFrequencyTable_of(initfreqs) ==
    SimpleFrequencyTable([i \in 1..get_symbol_limit(initfreqs).ret |->
                              get(initfreqs, i - 1).ret])

InitAdaptive ==
    /\ \E data \in Files : infile = File(data)
    /\ outfile = << >>
    /\ freqs = SimpleFrequencyTable_of(FlatFrequencyTable(NumByteValues + 1))
    /\ enc = ArithmeticEncoder(AppStateBits, BitOutputStream)
    /\ dec = NoObject
    /\ last = NoCall
    /\ written = << >>
    /\ tables = << >>
    /\ decoded = << >>
    /\ pc = "compress"
    /\ NoBitStreams /\ NoPpm

\* One turn of the loop of compress: read a byte, write it, increment it.
AdaptiveCompressByte ==
    /\ pc = "compress"
    /\ \E b \in {File_read(infile)} :
          /\ Len(b.ret) # 0
          /\ infile' = b.obj
          /\ \E w \in {ArithmeticEncoder_write(enc, freqs, b.ret[1])} :
                /\ enc' = w.obj
                /\ last' = Call("write", b.ret[1], enc, w)
                /\ IF w.exc # NoExc
                   THEN /\ freqs' = w.freqs
                        /\ pc' = "failed"
                        /\ UNCHANGED <<written, tables>>
                   ELSE /\ freqs' = increment(w.freqs, b.ret[1]).obj
                        /\ written' = Append(written, b.ret[1])
                        /\ tables' = Append(tables, freqs)
                        /\ pc' = "compress"
    /\ UNCHANGED <<dec, decoded, outfile, bitVars, ppmVars>>

\* The end of compress: the read returns nothing, EOF is written and the
\* encoder is finished.
AdaptiveCompressEof ==
    /\ pc = "compress"
    /\ \E b \in {File_read(infile)} :
          /\ Len(b.ret) = 0
          /\ infile' = b.obj
          /\ \E w \in {ArithmeticEncoder_write(enc, freqs, EofSymbol)} :
                /\ freqs' = w.freqs
                /\ IF w.exc # NoExc
                   THEN /\ enc' = w.obj
                        /\ last' = Call("write", EofSymbol, enc, w)
                        /\ pc' = "failed"
                        /\ UNCHANGED <<written, tables>>
                   ELSE \E f \in {ArithmeticEncoder_finish(w.obj)} :
                        /\ enc' = f.obj
                        /\ last' = Call("finish", 0, w.obj, f)
                        /\ written' = Append(written, EofSymbol)
                        /\ tables' = Append(tables, freqs)
                        /\ pc' = "compressed"
    /\ UNCHANGED <<dec, decoded, outfile, bitVars, ppmVars>>

\* The end of the with statement of main: bitout.close()
AdaptiveClose ==
    /\ pc = "compressed"
    /\ \E r \in {BitOutputStream_close(enc.output)} :
          /\ enc' = [enc EXCEPT !.output = r.obj]
          /\ last' = Call("close", 0, enc, r)
    /\ pc' = "closed"
    /\ UNCHANGED <<freqs, dec, written, tables, decoded, fileVars, bitVars, ppmVars>>

\* The loop of decompress: read a symbol, stop at EOF, else write the byte out
\* and increment it.
RECURSIVE adaptive_decompress_loop(_, _, _)
adaptive_decompress_loop(decoder, table, bytes) ==
    LET Go(r) ==
            IF r.exc # NoExc \/ r.ret = EofSymbol
            THEN [dec |-> r.obj, freqs |-> r.freqs, out |-> bytes, exc |-> r.exc]
            ELSE adaptive_decompress_loop(r.obj, increment(r.freqs, r.ret).obj,
                                          Append(bytes, r.ret))
    IN Go(ArithmeticDecoder_read(decoder, table))

\* decompress(bitin, out)
adaptive_decompress(bitin, bytes) ==
    LET Made(table, d) ==
            IF d.exc # NoExc
            THEN [dec |-> d.obj, freqs |-> table, out |-> bytes, exc |-> d.exc]
            ELSE adaptive_decompress_loop(d.obj, table, bytes)
    IN Made(SimpleFrequencyTable_of(FlatFrequencyTable(NumByteValues + 1)),
            ArithmeticDecoder_1(bitin))

\* The decompressor run on the file the compressor wrote.
AdaptiveDecompress ==
    /\ pc = "closed"
    /\ \E r \in {adaptive_decompress(BitInputStream(enc.output.output.bytes), << >>)} :
          /\ dec' = r.dec
          /\ freqs' = r.freqs
          /\ outfile' = r.out
          /\ last' = [op |-> "decompress", symbol |-> 0, pre |-> NoObject,
                      ret |-> 0, exc |-> r.exc]
    /\ pc' = "decompressed"
    /\ UNCHANGED <<enc, infile, written, tables, decoded, bitVars, ppmVars>>

NextAdaptive ==
    \/ AdaptiveCompressByte
    \/ AdaptiveCompressEof
    \/ AdaptiveClose
    \/ AdaptiveDecompress

SpecAdaptive == InitAdaptive /\ [][NextAdaptive]_vars

(***************************************************************************)
(* PpmModel (ppmmodel.py).  The trie of contexts is the function contexts  *)
(* from the path of symbols leading to a context (the root is << >>) to    *)
(* the context: root_context is None when << >> is not in its domain, and  *)
(* subcontexts[sym] of the context at path is None when Append(path, sym)  *)
(* is not in its domain.  The subcontexts field of a context tells whether *)
(* it has the array of children (TRUE) or None (FALSE).                    *)
(***************************************************************************)
Context(symbols, hassubctx) ==
    [frequencies |-> SimpleFrequencyTable([i \in 1..symbols |-> 0]),
     subcontexts |-> hassubctx]

\* A context created without the increment of the escape symbol.
EscapeContext_uncounted(symbols, hassubctx, escapesymbol) ==
    Context(symbols, hassubctx)

\* Context(...) followed by frequencies.increment(escapesymbol)
EscapeContext(symbols, hassubctx, escapesymbol) ==
    [Context(symbols, hassubctx) EXCEPT
        !.frequencies = increment(@, escapesymbol).obj]

PpmModel(order, symbollimit, escapesymbol) ==
    IF order < -1 \/ symbollimit <= 0
       \/ ~(0 <= escapesymbol /\ escapesymbol < symbollimit)
    THEN Result(NoObject, 0, "ValueError")
    ELSE Result([kind |-> "ppm",
                 model_order |-> order,
                 symbol_limit |-> symbollimit,
                 escape_symbol |-> escapesymbol,
                 contexts |-> IF order >= 0
                              THEN << >> :> EscapeContext(symbollimit, order >= 1,
                                                          escapesymbol)
                              ELSE << >>,
                 order_minus1_freqs |-> FlatFrequencyTable(symbollimit)],
                0, NoExc)

\* history[len(history) - order : ]
Suffix(hist, order) == SubSeq(hist, Len(hist) - order + 1, Len(hist))

\* The walk of increment_contexts creating contexts without counting the
\* escape symbol in them.
RECURSIVE increment_walk_no_escape(_, _, _)
increment_walk_no_escape(self, path, depth) ==
    IF depth = Len(path) THEN Result(self, 0, NoExc)
    ELSE IF ~self.contexts[SubSeq(path, 1, depth)].subcontexts
    THEN Result(self, 0, "AssertionError")
    ELSE IF SubSeq(path, 1, depth + 1) \in DOMAIN self.contexts
    THEN increment_walk_no_escape(self, path, depth + 1)
    ELSE increment_walk_no_escape(
            [self EXCEPT !.contexts =
                @ @@ (SubSeq(path, 1, depth + 1) :>
                        Context(self.symbol_limit, depth + 1 < self.model_order))],
            path, depth + 1)

\* The walk of increment_contexts giving the contexts of the deepest order a
\* child array too.
RECURSIVE increment_walk_leaf_array(_, _, _)
increment_walk_leaf_array(self, path, depth) ==
    IF depth = Len(path) THEN Result(self, 0, NoExc)
    ELSE IF ~self.contexts[SubSeq(path, 1, depth)].subcontexts
    THEN Result(self, 0, "AssertionError")
    ELSE IF SubSeq(path, 1, depth + 1) \in DOMAIN self.contexts
    THEN increment_walk_leaf_array(self, path, depth + 1)
    ELSE increment_walk_leaf_array(
            [self EXCEPT !.contexts =
                @ @@ (SubSeq(path, 1, depth + 1) :>
                        EscapeContext(self.symbol_limit,
                                      depth + 1 <= self.model_order,
                                      self.escape_symbol))],
            path, depth + 1)

\* The inner loop of increment_contexts: walk down path from the root,
\* creating the contexts that are missing.
RECURSIVE increment_walk(_, _, _)
increment_walk(self, path, depth) ==
    IF depth = Len(path) THEN Result(self, 0, NoExc)
    ELSE IF ~self.contexts[SubSeq(path, 1, depth)].subcontexts
    THEN Result(self, 0, "AssertionError")
    ELSE IF SubSeq(path, 1, depth + 1) \in DOMAIN self.contexts
    THEN increment_walk(self, path, depth + 1)
    ELSE increment_walk(
            [self EXCEPT !.contexts =
                @ @@ (SubSeq(path, 1, depth + 1) :>
                        EscapeContext(self.symbol_limit,
                                      depth + 1 < self.model_order,
                                      self.escape_symbol))],
            path, depth + 1)

\* The outer loop of increment_contexts, from order on.
RECURSIVE increment_orders(_, _, _, _)
increment_orders(self, hist, symbol, order) ==
    IF order > Len(hist) THEN Result(self, 0, NoExc)
    ELSE LET Incremented(walked, inc) ==
                 IF inc.exc # NoExc THEN Result(walked, 0, inc.exc)
                 ELSE increment_orders(
                        [walked EXCEPT
                            !.contexts[Suffix(hist, order)].frequencies = inc.obj],
                        hist, symbol, order + 1)
             Walked(w) ==
                 IF w.exc # NoExc THEN w
                 ELSE Incremented(w.obj,
                        increment(w.obj.contexts[Suffix(hist, order)].frequencies,
                                  symbol))
         IN Walked(increment_walk(self, Suffix(hist, order), 0))

\* increment_contexts counting the escape symbol along with the symbol.
increment_contexts_counts_escape(self, hist, symbol) ==
    IF self.model_order = -1 THEN Result(self, 0, NoExc)
    ELSE LET Again(r) == IF r.exc # NoExc THEN r
                         ELSE increment_orders(r.obj, hist, self.escape_symbol, 0)
         IN Again(increment_orders(self, hist, symbol, 0))

increment_contexts(self, hist, symbol) ==
    IF self.model_order = -1 THEN Result(self, 0, NoExc)
    ELSE IF Len(hist) > self.model_order
            \/ ~(0 <= symbol /\ symbol < self.symbol_limit)
    THEN Result(self, 0, "ValueError")
    ELSE increment_orders(self, hist, symbol, 0)

(***************************************************************************)
(* The PPM front end (ppm-compress.py).  The literal 256 of encode_symbol  *)
(* and compress is EofSymbol here.                                         *)
(***************************************************************************)
\* What encode_symbol leaves: the encoder, the model (its tables may have
\* built their cumulative values), the writes it made as <<order, symbol>> pairs,
\* and the exception raised.
Encoded(encoder, mdl, log, exc) ==
    [enc |-> encoder, model |-> mdl, log |-> log, exc |-> exc]

\* The inner loop of encode_symbol: walk down path from the root.  found tells
\* whether the loop ended without break.
RECURSIVE encode_walk(_, _, _)
encode_walk(mdl, path, depth) ==
    IF depth = Len(path) THEN [found |-> TRUE, exc |-> NoExc]
    ELSE IF SubSeq(path, 1, depth) \notin DOMAIN mdl.contexts
    THEN [found |-> FALSE,
          exc |-> "AttributeError: 'NoneType' object has no attribute 'subcontexts'"]
    ELSE IF ~mdl.contexts[SubSeq(path, 1, depth)].subcontexts
    THEN [found |-> FALSE, exc |-> "AssertionError"]
    ELSE IF SubSeq(path, 1, depth + 1) \notin DOMAIN mdl.contexts
    THEN [found |-> FALSE, exc |-> NoExc]
    ELSE encode_walk(mdl, path, depth + 1)

\* The loop of encode_symbol from order down, and the order -1 write after it.
RECURSIVE encode_orders(_, _, _, _, _, _)
encode_orders(mdl, hist, symbol, encoder, order, log) ==
    IF order < 0
    THEN LET Last(w) ==
                 Encoded(w.obj, [mdl EXCEPT !.order_minus1_freqs = w.freqs],
                         IF w.exc = NoExc THEN Append(log, <<-1, symbol>>) ELSE log,
                         w.exc)
         IN Last(ArithmeticEncoder_write(encoder, mdl.order_minus1_freqs, symbol))
    ELSE LET path == Suffix(hist, order)
             Stored(w) == [mdl EXCEPT !.contexts[path].frequencies = w.freqs]
             Symbol(w) ==
                 Encoded(w.obj, Stored(w),
                         IF w.exc = NoExc THEN Append(log, <<order, symbol>>) ELSE log,
                         w.exc)
             Escape(w) ==
                 IF w.exc # NoExc THEN Encoded(w.obj, Stored(w), log, w.exc)
                 ELSE encode_orders(Stored(w), hist, symbol, w.obj, order - 1,
                                    Append(log, <<order, EofSymbol>>))
             Frequency(g) ==
                 IF g.exc # NoExc THEN Encoded(encoder, mdl, log, g.exc)
                 ELSE IF g.ret > 0
                 THEN Symbol(ArithmeticEncoder_write(
                                encoder, mdl.contexts[path].frequencies, symbol))
                 ELSE Escape(ArithmeticEncoder_write(
                                encoder, mdl.contexts[path].frequencies, EofSymbol))
             Walked(wk) ==
                 IF wk.exc # NoExc THEN Encoded(encoder, mdl, log, wk.exc)
                 ELSE IF ~wk.found
                 THEN encode_orders(mdl, hist, symbol, encoder, order - 1, log)
                 ELSE IF path \notin DOMAIN mdl.contexts
                 THEN Encoded(encoder, mdl, log,
                        "AttributeError: 'NoneType' object has no attribute 'frequencies'")
                 ELSE IF symbol # EofSymbol
                 THEN Frequency(get(mdl.contexts[path].frequencies, symbol))
                 ELSE Escape(ArithmeticEncoder_write(
                                encoder, mdl.contexts[path].frequencies, EofSymbol))
         IN Walked(encode_walk(mdl, path, 0))

encode_symbol(mdl, hist, symbol, encoder) ==
    encode_orders(mdl, hist, symbol, encoder, Len(hist), << >>)

\* The history update of compress without the deletion of the oldest symbol.
compress_history_keeps_oldest(mdl, hist, symbol) ==
    IF mdl.model_order >= 1 THEN Append(hist, symbol) ELSE hist

\* The history update of compress: append the symbol, dropping the oldest one
\* when the history is full.
compress_history(mdl, hist, symbol) ==
    IF mdl.model_order >= 1
    THEN Append(IF Len(hist) = mdl.model_order THEN Tail(hist) ELSE hist, symbol)
    ELSE hist

InitPpm ==
    /\ \E data \in Files : infile = File(data)
    /\ outfile = << >>
    /\ enc = ArithmeticEncoder(AppStateBits, BitOutputStream)
    /\ \E order \in -1..MaxOrder :
          model = PpmModel(order, NumByteValues + 1, EofSymbol).obj
    /\ history = << >>
    /\ freqs = NoObject
    /\ dec = NoObject
    /\ last = NoCall
    /\ written = << >>
    /\ tables = << >>
    /\ decoded = << >>
    /\ pc = "compress"
    /\ NoBitStreams

PpmCall(op, symbol, log, exc) ==
    [op |-> op, symbol |-> symbol, pre |-> NoObject, ret |-> log, exc |-> exc]

\* One turn of the loop of compress: read a byte, encode it, increment the
\* contexts, update the history.
PpmCompressByte ==
    /\ pc = "compress"
    /\ \E b \in {File_read(infile)} :
          /\ Len(b.ret) # 0
          /\ infile' = b.obj
          /\ \E e \in {encode_symbol(model, history, b.ret[1], enc)} :
                /\ enc' = e.enc
                /\ IF e.exc # NoExc
                   THEN /\ model' = e.model
                        /\ last' = PpmCall("encode_symbol", b.ret[1], e.log, e.exc)
                        /\ pc' = "failed"
                        /\ UNCHANGED <<history, written>>
                   ELSE \E i \in {increment_contexts(e.model, history, b.ret[1])} :
                        /\ model' = i.obj
                        /\ last' = PpmCall("encode_symbol", b.ret[1], e.log, i.exc)
                        /\ written' = Append(written, b.ret[1])
                        /\ IF i.exc # NoExc
                           THEN pc' = "failed" /\ UNCHANGED history
                           ELSE /\ pc' = "compress"
                                /\ history' = compress_history(i.obj, history, b.ret[1])
    /\ UNCHANGED <<freqs, dec, tables, decoded, outfile, bitVars>>

\* The end of compress: EOF is encoded and the encoder is finished.
PpmCompressEof ==
    /\ pc = "compress"
    /\ \E b \in {File_read(infile)} :
          /\ Len(b.ret) = 0
          /\ infile' = b.obj
          /\ \E e \in {encode_symbol(model, history, EofSymbol, enc)} :
                /\ model' = e.model
                /\ last' = PpmCall("encode_symbol", EofSymbol, e.log, e.exc)
                /\ IF e.exc # NoExc
                   THEN /\ enc' = e.enc
                        /\ pc' = "failed"
                        /\ UNCHANGED written
                   ELSE /\ enc' = ArithmeticEncoder_finish(e.enc).obj
                        /\ written' = Append(written, EofSymbol)
                        /\ pc' = "compressed"
    /\ UNCHANGED <<freqs, dec, tables, decoded, outfile, history, bitVars>>

\* The end of the with statement of main: bitout.close()
PpmClose ==
    /\ pc = "compressed"
    /\ \E r \in {BitOutputStream_close(enc.output)} :
          /\ enc' = [enc EXCEPT !.output = r.obj]
          /\ last' = Call("close", 0, enc, r)
    /\ pc' = "closed"
    /\ UNCHANGED <<freqs, dec, written, tables, decoded, fileVars, bitVars, ppmVars>>

(***************************************************************************)
(* The PPM decompressor, the mirror of the compressor as the               *)
(* specification describes it ("Decoding a symbol", "EOF protocol",        *)
(* "History window"): ppm-decompress.py is not among the sources.  It      *)
(* uses the PpmModel of the sources.                                       *)
(***************************************************************************)
Decoded(decoder, mdl, symbol, exc) ==
    [dec |-> decoder, model |-> mdl, ret |-> symbol, exc |-> exc]

\* Whether the context at path exists, every context on the way to it too.
ContextExists(mdl, path) ==
    \A depth \in 0..Len(path) : SubSeq(path, 1, depth) \in DOMAIN mdl.contexts

\* From order down: at each existing context decode one symbol, go on to the
\* next lower order on the escape symbol; at order -1 the symbol decoded from
\* the flat table is the symbol.
RECURSIVE decode_orders(_, _, _, _)
decode_orders(mdl, hist, decoder, order) ==
    IF order < 0
    THEN LET Last(r) ==
                 Decoded(r.obj, [mdl EXCEPT !.order_minus1_freqs = r.freqs],
                         r.ret, r.exc)
         IN Last(ArithmeticDecoder_read(decoder, mdl.order_minus1_freqs))
    ELSE IF ~ContextExists(mdl, Suffix(hist, order))
    THEN decode_orders(mdl, hist, decoder, order - 1)
    ELSE LET Stored(r) ==
                 [mdl EXCEPT !.contexts[Suffix(hist, order)].frequencies = r.freqs]
             Escaped(r) ==
                 IF r.exc # NoExc \/ r.ret # mdl.escape_symbol
                 THEN Decoded(r.obj, Stored(r), r.ret, r.exc)
                 ELSE decode_orders(Stored(r), hist, r.obj, order - 1)
         IN Escaped(ArithmeticDecoder_read(
                    decoder, mdl.contexts[Suffix(hist, order)].frequencies))

decode_symbol(mdl, hist, decoder) == decode_orders(mdl, hist, decoder, Len(hist))

\* The sliding window of the last model_order symbols, not kept when
\* model_order <= 0.
decompress_history(mdl, hist, symbol) ==
    IF mdl.model_order >= 1
    THEN LET appended == Append(hist, symbol)
         IN IF Len(appended) > mdl.model_order THEN Tail(appended) ELSE appended
    ELSE hist

\* The decompressor starts on the file the compressor wrote, with the same
\* initial model state.
PpmDecompressStart ==
    /\ pc = "closed"
    /\ dec' = ArithmeticDecoder(AppStateBits, BitInputStream(enc.output.output.bytes))
    /\ model' = PpmModel(model.model_order, NumByteValues + 1, EofSymbol).obj
    /\ history' = << >>
    /\ last' = Call("ArithmeticDecoder", 0, NoObject, Result(0, 0, NoExc))
    /\ pc' = "decompress"
    /\ UNCHANGED <<freqs, enc, written, tables, decoded, fileVars, bitVars>>

\* One symbol is decoded: EOF ends the stream, a byte is written out, counted
\* in the contexts and appended to the history.
PpmDecompressSymbol ==
    /\ pc = "decompress"
    /\ Len(outfile) <= MaxFileLen
    /\ \E d \in {decode_symbol(model, history, dec)} :
          /\ dec' = d.dec
          /\ decoded' = IF d.exc = NoExc THEN Append(decoded, d.ret) ELSE decoded
          /\ IF d.exc # NoExc
             THEN /\ model' = d.model
                  /\ last' = PpmCall("decode_symbol", 0, 0, d.exc)
                  /\ pc' = "failed"
                  /\ UNCHANGED <<history, outfile>>
             ELSE IF d.ret = EofSymbol
             THEN /\ model' = d.model
                  /\ last' = PpmCall("decode_symbol", d.ret, 0, NoExc)
                  /\ pc' = "decompressed"
                  /\ UNCHANGED <<history, outfile>>
             ELSE \E i \in {increment_contexts(d.model, history, d.ret)} :
                  /\ model' = i.obj
                  /\ last' = PpmCall("decode_symbol", d.ret, 0, i.exc)
                  /\ outfile' = Append(outfile, d.ret)
                  /\ IF i.exc # NoExc
                     THEN pc' = "failed" /\ UNCHANGED history
                     ELSE /\ pc' = "decompress"
                          /\ history' = decompress_history(i.obj, history, d.ret)
    /\ UNCHANGED <<freqs, enc, written, tables, infile, bitVars>>

NextPpm ==
    \/ PpmCompressByte
    \/ PpmCompressEof
    \/ PpmClose
    \/ PpmDecompressStart
    \/ PpmDecompressSymbol

SpecPpm == InitPpm /\ [][NextPpm]_vars

(***************************************************************************)
(* A session with a table per symbol in which the caller of the decoder    *)
(* passes any table to read, also one whose total is beyond maximum_total  *)
(* or another one than the symbol was written with.                        *)
(***************************************************************************)
\* The tables of the caller: one every coder can code with, and one with a
\* symbol of frequency 0 and a total beyond the maximum_total of the coders
\* of few state bits.
FailedTables ==
    { SimpleFrequencyTable(<<1, 1>>), SimpleFrequencyTable(<<1, 0, 4>>) }

InitFailed ==
    /\ freqs \in FailedTables
    /\ \E numbits \in 1..MaxStateBits : enc = ArithmeticEncoder(numbits, BitOutputStream)
    /\ dec = NoObject
    /\ last = NoCall
    /\ written = << >>
    /\ tables = << >>
    /\ decoded = << >>
    /\ pc = "encoding"
    /\ NoBitStreams /\ NoFiles /\ NoPpm

\* dec.read(table), with any table
ReadAny(table) ==
    /\ pc = "decoding"
    /\ Len(decoded) < Len(written)
    /\ \E r \in {ArithmeticDecoder_read(dec, table)} :
          /\ dec' = r.obj
          /\ freqs' = r.freqs
          /\ last' = Extend(Call("read", 0, dec, r), [table |-> table])
          /\ decoded' = IF r.exc = NoExc THEN Append(decoded, r.ret) ELSE decoded
    /\ UNCHANGED <<enc, written, tables, pc, bitVars, fileVars, ppmVars>>

NextFailed ==
    \/ \E table \in FailedTables : \E symbol \in 0..2 : WriteWith(table, symbol)
    \/ Finish
    \/ Close
    \/ NewDecoder
    \/ \E table \in FailedTables : ReadAny(table)

SpecFailed == InitFailed /\ [][NextFailed]_vars

(***************************************************************************)
(* A PpmModel used on its own: it is constructed with any order and        *)
(* increment_contexts is called on it with any history and symbol, also a  *)
(* history longer than the order and a symbol outside the alphabet.  The   *)
(* history of the last call is kept in history, the model before it in     *)
(* last.pre.                                                               *)
(***************************************************************************)
\* The histories of the calls: symbols of the alphabet, the escape symbol
\* among them, up to one longer than the highest order.
TrieHistories ==
    { << >>, <<0>>, <<1>>, <<0, 1>>, <<1, 1>>, <<EofSymbol, 0>>,
      <<0, 1, 1>>, <<0, 1, 1, 0>> }

InitTrie ==
    /\ \E order \in -1..MaxOrder :
          model = PpmModel(order, NumByteValues + 1, EofSymbol).obj
    /\ history = << >>
    /\ freqs = NoObject
    /\ enc = NoObject
    /\ dec = NoObject
    /\ last = NoCall
    /\ written = << >>
    /\ tables = << >>
    /\ decoded = << >>
    /\ pc = "trie"
    /\ NoBitStreams /\ NoFiles

\* model.increment_contexts(hist, symbol)
TrieIncrement(hist, symbol) ==
    /\ pc = "trie"
    /\ model.model_order >= 0
          => get_total(model.contexts[<< >>].frequencies).ret <= MaxFreq
    /\ \E r \in {increment_contexts(model, hist, symbol)} :
          /\ model' = r.obj
          /\ last' = Call("increment_contexts", symbol, model, r)
    /\ history' = hist
    /\ UNCHANGED <<freqs, enc, dec, written, tables, decoded, pc, fileVars, bitVars>>

NextTrie ==
    \E hist \in TrieHistories, symbol \in -1..NumByteValues :
        TrieIncrement(hist, symbol)

SpecTrie == InitTrie /\ [][NextTrie]_vars

(***************************************************************************)
(* Properties of the coder.                                                *)
(***************************************************************************)
IsCoder(c) == c.kind \in {"enc", "dec"}

ZeroFrequencyError == "ValueError: Symbol has zero frequency"
TotalTooLargeError == "ValueError: Cannot code symbol because total is too large"

\* The symbol of the last call is one of the table's and its frequency there.
SymbolInRange(table, symbol) == 0 <= symbol /\ symbol < get_symbol_limit(table).ret
FrequencyOf(table, symbol) == get(table, symbol).ret

\* C1: with one frequency table, the symbols a decoder reads from the bytes of a
\* finished and closed encoder are the symbols written, in order, and no read
\* raises: at every point of the decoding the symbols read so far are the first
\* symbols written.
C1_RoundTripFixedTable ==
    pc = "decoding" =>
        /\ Len(decoded) <= Len(written)
        /\ \A i \in 1..Len(decoded) : decoded[i] = written[i]
        /\ last.exc = NoExc

\* All the symbols of a session of MaxLen symbols, not all the same, are read back,
\* from an encoder that finished with underflow bits pending.
C1_Witness ==
    /\ pc = "decoding"
    /\ Len(written) = MaxLen
    /\ decoded = written
    /\ \E i \in 1..Len(written) : written[i] # written[1]
    /\ enc.num_underflow > 0

RangeInvariant(c) ==
    /\ 0 <= c.low
    /\ c.low < c.half_range
    /\ c.half_range <= c.high
    /\ c.high < c.full_range
    /\ c.minimum_range <= c.high - c.low + 1
    /\ c.high - c.low + 1 <= c.full_range

\* C5: after construction and after every update, of the encoder and of the
\* decoder, 0 <= low < half_range <= high < full_range and
\* minimum_range <= high - low + 1 <= full_range; the state checks at the start
\* of update never fail.
C5_RangeAfterUpdate ==
    /\ IsCoder(enc) => RangeInvariant(enc)
    /\ IsCoder(dec) => RangeInvariant(dec)
    /\ last.exc \notin {"AssertionError: Low or high out of range",
                        "AssertionError: Range out of range"}

\* A read whose update deleted an underflow bit, from a range that was already
\* narrowed, in a session of two different tables.
C5_Witness ==
    /\ last.op = "read"
    /\ last.exc = NoExc
    /\ \E i \in 1..Len(tables) : tables[i] # tables[1]
    /\ last.pre.high - last.pre.low + 1 < last.pre.full_range
    /\ \E i \in 1..Len(dec.calls) : dec.calls[i] = "u"

QuarterInvariant(c) == c.low < c.quarter_range \/ c.high >= 3 * c.quarter_range

\* C6: before and after each coded symbol low and high are not both in the
\* middle two quarters: low < quarter_range or high >= 3 * quarter_range, in
\* the encoder and in the decoder, for every num_state_bits >= 1.
C6_NotBothInMiddle ==
    /\ IsCoder(enc) => QuarterInvariant(enc)
    /\ IsCoder(dec) => QuarterInvariant(dec)

\* A write with num_state_bits >= 2 whose update went through the underflow loop.
C6_Witness ==
    /\ last.op = "write"
    /\ last.exc = NoExc
    /\ enc.quarter_range > 0
    /\ Len(enc.calls) > 0
    /\ enc.calls[Len(enc.calls)] = "u"

\* C8 as stated: for every table and symbol, write succeeds if and only if the
\* table's total is at most maximum_total = quarter_range + 2, and with
\* total = maximum_total + 1 it fails with the total-too-large error.
C8_Original ==
    last.op = "write" =>
        /\ last.exc = NoExc <=> get_total(freqs).ret <= enc.quarter_range + 2
        /\ get_total(freqs).ret = enc.quarter_range + 3 => last.exc = TotalTooLargeError

\* C8 as amended: for every table and every symbol of the table with non-zero
\* frequency, write succeeds if and only if the total is at most
\* maximum_total = quarter_range + 2, and otherwise fails with the
\* total-too-large error.
C8_TotalDecidesValidSymbol ==
    (/\ last.op = "write"
     /\ SymbolInRange(freqs, last.symbol)
     /\ FrequencyOf(freqs, last.symbol) > 0)
    => IF get_total(freqs).ret <= enc.quarter_range + 2
       THEN last.exc = NoExc
       ELSE last.exc = TotalTooLargeError

\* A write of a symbol of non-zero frequency with total = maximum_total + 1.
C8_Witness ==
    /\ last.op = "write"
    /\ SymbolInRange(freqs, last.symbol)
    /\ FrequencyOf(freqs, last.symbol) > 0
    /\ get_total(freqs).ret = enc.maximum_total + 1
    /\ last.exc = TotalTooLargeError

\* C9: a write of a symbol whose frequency in the table is zero fails with the
\* zero-frequency error, writes no bit and leaves the encoder as it was.
C9_ZeroFrequencyRejected ==
    (/\ last.op = "write"
     /\ SymbolInRange(freqs, last.symbol)
     /\ FrequencyOf(freqs, last.symbol) = 0)
    => /\ last.exc = ZeroFrequencyError
       /\ enc.output = last.pre.output
       /\ enc.low = last.pre.low
       /\ enc.high = last.pre.high
       /\ enc.num_underflow = last.pre.num_underflow

\* A write of a zero-frequency symbol after another symbol was written.
C9_Witness ==
    /\ last.op = "write"
    /\ last.exc = ZeroFrequencyError
    /\ Len(written) > 0

\* C7: after construction and after every read, low <= code <= high < full_range,
\* whatever the input stream; the check at the end of read never fails.
C7_CodeInWindow ==
    /\ dec.low <= dec.code
    /\ dec.code <= dec.high
    /\ dec.high < dec.full_range
    /\ last.exc # "AssertionError: Code out of range"

\* A read that returned a symbol after the input stream had ended, and whose
\* update shifted bits in.
C7_Witness ==
    /\ last.op = "read"
    /\ last.exc = NoExc
    /\ dec.input.currentbyte = -1
    /\ Len(dec.calls) > 0
    /\ dec.code > 0

(***************************************************************************)
(* Properties of the frequency tables.                                     *)
(***************************************************************************)
\* The sum of the first n frequencies of a table, from get.
RECURSIVE FrequencySum(_, _)
FrequencySum(table, n) ==
    IF n = 0 THEN 0 ELSE FrequencySum(table, n - 1) + get(table, n - 1).ret

TableLaws(table) ==
    LET limit == get_symbol_limit(table).ret
        symbols == 0..(limit - 1)
    IN /\ get_total(table).ret = FrequencySum(table, limit)
       /\ get_low(table, 0).ret = 0
       /\ get_high(table, limit - 1).ret = get_total(table).ret
       /\ \A s \in symbols :
             /\ get_low(table, s).exc = NoExc
             /\ get_high(table, s).exc = NoExc
             /\ get_high(table, s).ret = get_low(table, s).ret + get(table, s).ret
             /\ s < limit - 1 => get_high(table, s).ret = get_low(table, s + 1).ret
             /\ \A t \in symbols :
                   s <= t => /\ get_low(table, s).ret <= get_low(table, t).ret
                             /\ get_high(table, s).ret <= get_high(table, t).ret

CacheIsPrefixSums(table) ==
    (table.kind = "simple" /\ table.cumulative # None)
    => /\ Len(table.cumulative) = Len(table.frequencies) + 1
       /\ \A i \in 1..Len(table.cumulative) :
             table.cumulative[i] = FrequencySum(table, i - 1)

\* C10: in every state of a table session, of a flat and of a simple table,
\* total is the sum of the frequencies, low(0) = 0, high(s) = low(s + 1),
\* high(limit - 1) = total, high(s) = low(s) + get(s), low and high are
\* monotone, and a cumulative cache that is not None holds the prefix sums of
\* the current frequencies; the value a get_low or get_high call of the session
\* returned is the prefix sum too.
C10_TableLaws ==
    InTableSession =>
        /\ TableLaws(freqs)
        /\ CacheIsPrefixSums(freqs)
        /\ (last.op = "get_low" /\ last.exc = NoExc)
              => last.ret = FrequencySum(freqs, last.symbol)
        /\ (last.op = "get_high" /\ last.exc = NoExc)
              => last.ret = FrequencySum(freqs, last.symbol + 1)

\* A get_high that rebuilt the cumulative cache of a simple table, after a
\* modification had found the cache built and dropped it.
C10_Witness ==
    /\ pc = "invalidated"
    /\ last.op = "get_high"
    /\ last.exc = NoExc
    /\ last.ret > 1
    /\ last.pre.cumulative = None
    /\ freqs.cumulative # None

(***************************************************************************)
(* Properties of the bit streams.                                          *)
(***************************************************************************)
\* The number of bits of the bytes that hold n bits: ceil(n / 8) * 8.
PaddedLength(n) == ((n + 7) \div 8) * 8

\* The i-th bit of the padded stream of the bits written.
PaddedBit(i) == IF i <= Len(bits) THEN bits[i] ELSE 0

\* The byte of eight bits, the first in the highest position.
RECURSIVE PackedFrom(_, _)
PackedFrom(i, n) ==
    IF n = 0 THEN 0 ELSE 2 * PackedFrom(i, n - 1) + PaddedBit(i + n - 1)

\* C4: the bytes of a closed BitOutputStream are the bits written, most
\* significant bit first, padded with zeros to a whole byte; a BitInputStream
\* over them returns the bits written from its first n reads, the padding zeros
\* up to read ceil(n/8)*8, and -1 from every read after that.
C4_BitStreamRoundTrip ==
    /\ pc \in {"closed", "reading"} =>
          /\ outstream.output.closed
          /\ 8 * Len(outstream.output.bytes) = PaddedLength(Len(bits))
          /\ \A k \in 1..Len(outstream.output.bytes) :
                outstream.output.bytes[k] = PackedFrom(8 * (k - 1) + 1, 8)
    /\ pc = "reading" =>
          \A i \in 1..Len(got) :
              got[i] = IF i <= PaddedLength(Len(bits)) THEN PaddedBit(i) ELSE -1

\* More than a byte of bits, not a whole number of bytes, zeros and ones, was
\* written and read back, and the reads went on past the end of the stream.
C4_Witness ==
    /\ pc = "reading"
    /\ Len(bits) > 8
    /\ Len(bits) % 8 # 0
    /\ \E i, j \in 1..Len(bits) : bits[i] = 0 /\ bits[j] = 1
    /\ bits[Len(bits)] = 1
    /\ Len(got) = PaddedLength(Len(bits)) + 2
    /\ got[Len(got)] = -1
    /\ got[Len(got) - 1] = -1

(***************************************************************************)
(* Properties of the front ends.                                           *)
(***************************************************************************)
\* C2: the adaptive decompressor, run on the output of the adaptive compressor
\* for the file B, ends without an exception and has written exactly B.
C2_AdaptiveRoundTrip ==
    pc = "decompressed" => (last.exc = NoExc /\ outfile = infile.data)

\* Every symbol decoded so far is the byte of B at its place, and B is whole
\* when the decoder has seen EOF.
Recovered ==
    /\ pc \in {"decompress", "decompressed"} =>
          /\ Len(outfile) <= Len(infile.data)
          /\ \A i \in 1..Len(outfile) : outfile[i] = infile.data[i]
    /\ pc = "decompressed" => outfile = infile.data

\* C3: for every file B and every model order from -1 to 3, ppm compress codes
\* B without an exception, and the mirror decoder recovers exactly B followed
\* by EOF from its output.
C3_PpmRoundTrip == pc # "failed" /\ Recovered

\* The PPM round trip for the model orders from 0 up.
PpmRoundTripFromOrder0 == model.model_order >= 0 => (pc # "failed" /\ Recovered)

(***************************************************************************)
(* Effects of the modifications of a simple table.                         *)
(***************************************************************************)
\* The table of the worked example of the specification.
ExampleTable == SimpleFrequencyTable(<<3, 1, 4, 1, 5>>)

ExampleIncrement ==
    LET before == ExampleTable
        queried == get_high(get_low(before, 2).obj, 2).obj
        after == increment(queried, 2).obj
    IN /\ get_total(before).ret = 14
       /\ get_low(before, 2).ret = 4
       /\ get_high(before, 2).ret = 8
       /\ queried.cumulative # None
       /\ get_total(after).ret = 15
       /\ get_low(after, 2).ret = 4
       /\ get_high(after, 2).ret = 9
       /\ get_low(after, 3).ret = 9

\* C11: an increment of an in-range symbol s of a simple table, with or
\* without a cumulative cache built before it, succeeds; total and get(s) grow
\* by exactly 1, get(t) is unchanged for t # s, low(t) is unchanged for t <= s
\* and grows by 1 for t > s, high(t) is unchanged for t < s and grows by 1 for
\* t >= s; and the table [3,1,4,1,5] gives the values of the worked example.
C11_IncrementEffect ==
    /\ ExampleIncrement
    /\ (InTableSession /\ last.op = "increment" /\ last.pre.kind = "simple"
          /\ SymbolInRange(last.pre, last.symbol))
       => LET pre == last.pre
              s == last.symbol
              Grown(b) == IF b THEN 1 ELSE 0
          IN /\ last.exc = NoExc
             /\ get_total(freqs).ret = get_total(pre).ret + 1
             /\ \A t \in 0..(Len(pre.frequencies) - 1) :
                   /\ get(freqs, t).ret = get(pre, t).ret + Grown(t = s)
                   /\ get_low(freqs, t).exc = NoExc
                   /\ get_high(freqs, t).exc = NoExc
                   /\ get_low(freqs, t).ret = get_low(pre, t).ret + Grown(t > s)
                   /\ get_high(freqs, t).ret = get_high(pre, t).ret + Grown(t >= s)

\* An increment of symbol 0 of a two-symbol table whose cumulative values
\* had been queried, so that a symbol above the incremented one exists.
C11_Witness ==
    /\ InTableSession
    /\ last.op = "increment"
    /\ last.exc = NoExc
    /\ last.symbol = 0
    /\ last.pre.kind = "simple"
    /\ Len(last.pre.frequencies) = 2
    /\ last.pre.cumulative # None
    /\ freqs.cumulative = None

\* C12: a set or an increment of a simple table that raises (symbol out of
\* range, negative frequency) leaves the table as it was: the frequencies, the
\* total and the cumulative cache are those before the call.
C12_FailedModificationKeepsState ==
    (InTableSession /\ last.op \in {"set", "increment"} /\ last.pre.kind = "simple")
    => /\ last.exc # NoExc => freqs = last.pre
       /\ last.exc \in {NoExc, "ValueError: Symbol out of range",
                        "ValueError: Negative frequency"}
       /\ ~SymbolInRange(last.pre, last.symbol)
             <=> last.exc = "ValueError: Symbol out of range"
       /\ last.exc = "ValueError: Negative frequency" => last.op = "set"
       /\ last.exc = NoExc => FrequencyOf(freqs, last.symbol) >= 0

\* A set with a negative frequency on a simple table whose cumulative cache
\* was built.
C12_Witness ==
    /\ InTableSession
    /\ last.op = "set"
    /\ last.exc = "ValueError: Negative frequency"
    /\ last.pre.kind = "simple"
    /\ last.pre.cumulative # None
    /\ freqs.cumulative # None

(***************************************************************************)
(* Properties of the PPM model during compression.                         *)
(***************************************************************************)
\* The states of the compressor: the decompressor has not started.
InPpmCompression == model # NoObject /\ dec = NoObject

\* The frequency of EOF in the order -1 table.
EofFrequencyOrderMinus1 == FrequencyOf(model.order_minus1_freqs, EofSymbol)

\* The frequencies of EOF in the contexts of order >= 0 that exist.
EofFrequenciesInContexts ==
    { FrequencyOf(model.contexts[path].frequencies, EofSymbol) :
        path \in DOMAIN model.contexts }

ByteBits(b) == [i \in 1..8 |-> (b \div Pow2(8 - i)) % 2]

RECURSIVE BytesBits(_)
BytesBits(bytes) ==
    IF bytes = << >> THEN << >> ELSE ByteBits(bytes[1]) \o BytesBits(Tail(bytes))

\* The bits written to a bit output stream so far.
BitsWritten(stream) ==
    BytesBits(stream.output.bytes)
    \o [i \in 1..stream.numbitsfilled |->
            (stream.currentbyte \div Pow2(stream.numbitsfilled - i)) % 2]

\* finish() writes one bit, 1, and leaves the rest of the encoder alone.
FinishWritesOne ==
    last.op = "finish"
    => /\ last.exc = NoExc
       /\ BitsWritten(enc.output) = Append(BitsWritten(last.pre.output), 1)
       /\ enc = [last.pre EXCEPT !.output = enc.output]

\* The decoder has read every symbol written.
DecodedAll ==
    pc = "decoding" /\ IsCoder(dec) /\ Len(decoded) = Len(written)

\* C14 as stated: finish() writes exactly one bit, 1, and changes nothing
\* else; once the decoder has read the last symbol from the finished output,
\* low < code < high.
C14_Original ==
    /\ FinishWritesOne
    /\ DecodedAll => (dec.low < dec.code /\ dec.code < dec.high)

\* C14 as amended: finish() writes exactly one bit, 1, and changes nothing
\* else (low, high and num_underflow stay, no pending underflow bit is
\* written); once the decoder has read the last symbol from the finished
\* output, with or without zero bytes after it, its code is half_range and
\* low < code <= high, also when underflow bits were pending at finish().
C14_CodeAboveLow ==
    /\ FinishWritesOne
    /\ DecodedAll
          => /\ decoded = written
             /\ dec.low = enc.low
             /\ dec.high = enc.high
             /\ dec.code = dec.half_range
             /\ dec.low < dec.code
             /\ dec.code <= dec.high

\* Two symbols decoded from a file followed by a zero byte, the encoder
\* having finished with an underflow bit pending.
C14_Witness ==
    /\ DecodedAll
    /\ Len(written) >= 2
    /\ enc.num_underflow > 0
    /\ last.op = "read"
    /\ dec.input.input = <<0>>
    /\ dec.code < dec.high

(***************************************************************************)
(* Properties of CheckedFrequencyTable.                                    *)
(***************************************************************************)
\* The frequency-table invariants of the data model, on the answers of the
\* table itself.
DataModelInvariants(table) ==
    /\ get_symbol_limit(table).ret >= 1
    /\ get_total(table).ret >= 0
    /\ \A s \in 0..(get_symbol_limit(table).ret - 1) : get(table, s).ret >= 0
    /\ TableLaws(table)

ContractViolations ==
    { "AssertionError",
      "AssertionError: Non-positive symbol limit",
      "AssertionError: ValueError expected",
      "AssertionError: Negative symbol frequency",
      "AssertionError: Negative total frequency",
      "AssertionError: Symbol low cumulative frequency out of range",
      "AssertionError: Symbol high cumulative frequency out of range" }

InCheckedCall == pc = "checked" /\ last.op # "init"

CumulativeChecksPass(table, symbol) ==
    /\ get_symbol_limit(table).ret >= 1
    /\ SymbolInRange(table, symbol)
    /\ get_low(table, symbol).exc = NoExc
    /\ get_high(table, symbol).exc = NoExc
    /\ 0 <= get_low(table, symbol).ret
    /\ get_low(table, symbol).ret <= get_high(table, symbol).ret
    /\ get_high(table, symbol).ret <= get_total(table).ret

RECURSIVE EncoderAfter(_)
EncoderAfter(k) ==
    IF k = 0 THEN ArithmeticEncoder(enc.num_state_bits, BitOutputStream)
    ELSE ArithmeticEncoder_write(EncoderAfter(k - 1), tables[k], written[k]).obj

\* C16: in a session whose table may change with every symbol, every read of
\* the decoder succeeds, and after k reads the decoder's low and high are
\* those of the encoder after k writes, and the last update of the decoder
\* made the shift and underflow calls the k-th write of the encoder made, in
\* the same order; the encoder after all the writes is the one replayed.
C16_Lockstep ==
    LET Decoder(e) ==
            /\ last.op = "read" => last.exc = NoExc
            /\ dec.low = e.low
            /\ dec.high = e.high
            /\ dec.calls = e.calls
            /\ decoded = SubSeq(written, 1, Len(decoded))
        Encoder(e) ==
            /\ enc.low = e.low
            /\ enc.high = e.high
            /\ enc.output = e.output
    IN /\ (pc = "decoding" /\ IsCoder(dec)) => Decoder(EncoderAfter(Len(decoded)))
       /\ (pc = "encoding" /\ IsCoder(enc)) => Encoder(EncoderAfter(Len(written)))

\* Three symbols coded with two different tables and read back, the last
\* update having shifted and then entered the underflow loop.
C16_Witness ==
    /\ pc = "decoding"
    /\ Len(decoded) = 3
    /\ last.op = "read"
    /\ tables[2] # tables[3]
    /\ \E i, j \in 1..Len(dec.calls) : i < j /\ dec.calls[i] = "s" /\ dec.calls[j] = "u"

(***************************************************************************)
(* The symbol read selects.                                                *)
(***************************************************************************)
\* The symbols t of table with low(t) <= value < high(t).
SymbolsAt(table, value) ==
    { t \in 0..(get_symbol_limit(table).ret - 1) :
        get_low(table, t).ret <= value /\ value < get_high(table, t).ret }

\* C17: a read, in any state of a decoder over any input stream, with a table
\* of total from 1 to maximum_total, zero-frequency symbols anywhere in it:
\* value = ((code - low + 1) * total - 1) // range is in 0..total-1, the symbol
\* returned is the only symbol s with low(s) <= value < high(s), its frequency
\* is not zero, low(s)*range//total <= code - low < high(s)*range//total, and
\* read raises nothing.
C17_SymbolSelection ==
    (pc = "reading" /\ last.op = "read" /\ freqs # NoObject
       /\ 1 <= get_total(freqs).ret
       /\ get_total(freqs).ret <= last.pre.maximum_total)
    => LET range == last.pre.high - last.pre.low + 1
           offset == last.pre.code - last.pre.low
           total == get_total(freqs).ret
           value == ((offset + 1) * total - 1) \div range
           s == last.ret
       IN /\ last.exc = NoExc
          /\ 0 <= value
          /\ value < total
          /\ SymbolsAt(freqs, value) = {s}
          /\ FrequencyOf(freqs, s) > 0
          /\ (get_low(freqs, s).ret * range) \div total <= offset
          /\ offset < (get_high(freqs, s).ret * range) \div total

\* A read with a table whose middle symbol has frequency zero that returned
\* the symbol above it, from a state in which the range had been narrowed by
\* an earlier read.
C17_Witness ==
    /\ pc = "reading"
    /\ last.op = "read"
    /\ last.exc = NoExc
    /\ last.ret = 2
    /\ freqs.kind = "simple"
    /\ freqs.frequencies = <<1, 0, 1>>
    /\ last.pre.calls # << >>
    /\ last.pre.code > last.pre.low

(***************************************************************************)
(* Range narrowing.  An encoder in any state that satisfies the invariants *)
(* of the coder, reached by a session or not, writes one symbol with any   *)
(* table.                                                                  *)
(***************************************************************************)
InitNarrow ==
    /\ freqs \in SimpleTables \cup FlatTables \cup ReadTables
    /\ \E numbits \in 1..MaxStateBits :
       \E low \in 0..ArithmeticCoderBase(numbits).state_mask :
       \E high \in 0..ArithmeticCoderBase(numbits).state_mask :
          /\ enc = [ArithmeticEncoder(numbits, BitOutputStream)
                       EXCEPT !.low = low, !.high = high]
          /\ RangeInvariant(enc)
          /\ QuarterInvariant(enc)
    /\ dec = NoObject
    /\ last = NoCall
    /\ written = << >>
    /\ tables = << >>
    /\ decoded = << >>
    /\ pc = "encoding"
    /\ NoBitStreams /\ NoFiles /\ NoPpm

\* enc.write(freqs, symbol), once
NarrowWrite(symbol) ==
    /\ last = NoCall
    /\ Write(symbol)

NextNarrow == \E symbol \in 0..MaxLimit : NarrowWrite(symbol)

SpecNarrow == InitNarrow /\ [][NextNarrow]_vars

\* The interval update narrows [low, high] of coder c to for symbol of table.
NarrowedLow(c, table, symbol) ==
    c.low + (get_low(table, symbol).ret * (c.high - c.low + 1))
                \div get_total(table).ret

NarrowedHigh(c, table, symbol) ==
    c.low + (get_high(table, symbol).ret * (c.high - c.low + 1))
                \div get_total(table).ret - 1

NonZeroSymbols(table) ==
    { s \in 0..(get_symbol_limit(table).ret - 1) : FrequencyOf(table, s) > 0 }

Partitions(c, table) ==
    /\ \A s \in NonZeroSymbols(table) :
          NarrowedLow(c, table, s) <= NarrowedHigh(c, table, s)
    /\ \A s, t \in NonZeroSymbols(table) :
          s < t => NarrowedHigh(c, table, s) < NarrowedLow(c, table, t)
    /\ UNION { NarrowedLow(c, table, s)..NarrowedHigh(c, table, s) :
                 s \in NonZeroSymbols(table) } = c.low..c.high

\* C18: in every state of a coder that satisfies the invariants of the coder
\* and for every table with 1 <= total <= maximum_total, the intervals
\* [low + low(s)*range//total, low + high(s)*range//total - 1] of the symbols
\* s of non-zero frequency are non-empty, pairwise disjoint and cover exactly
\* [low, high]; a write of such a symbol sets low and high to its interval
\* before the shifts, never low > high, and leaves a state that satisfies the
\* invariants.
C18_NarrowingPartitions ==
    (pc = "encoding" /\ IsCoder(enc))
    => /\ RangeInvariant(enc)
       /\ QuarterInvariant(enc)
       /\ (1 <= get_total(freqs).ret /\ get_total(freqs).ret <= enc.maximum_total)
             => Partitions(enc, freqs)
       /\ (last.op = "write" /\ last.symbol \in NonZeroSymbols(freqs)
             /\ get_total(freqs).ret <= enc.maximum_total)
             => /\ last.exc = NoExc
                /\ Partitions(last.pre, freqs)
                /\ shift_loop([last.pre EXCEPT
                        !.low = NarrowedLow(last.pre, freqs, last.symbol),
                        !.high = NarrowedHigh(last.pre, freqs, last.symbol),
                        !.calls = << >>]).obj.calls
                      = SelectSeq(enc.calls, LAMBDA x : x = "s")

\* A write of the last symbol of a table whose middle symbol has frequency
\* zero, from a state with low > 0 and high below the top of the full range.
C18_Witness ==
    /\ pc = "encoding"
    /\ last.op = "write"
    /\ last.exc = NoExc
    /\ last.symbol = 2
    /\ freqs.kind = "simple"
    /\ freqs.frequencies = <<1, 0, 1>>
    /\ last.pre.low > 0
    /\ last.pre.high < last.pre.full_range - 1

(***************************************************************************)
(* The bits the encoder writes.                                            *)
(***************************************************************************)
\* n copies of bit b.
Copies(b, n) == [i \in 1..n |-> b]

\* The top bit of value v of a coder of numbits state bits.
TopBit(v, numbits) == (v \div Pow2(numbits - 1)) % 2

\* shift() on encoder e writes the top bit of low, then num_underflow copies
\* of its complement, and resets num_underflow; nothing else changes.
ShiftEmits(e) ==
    LET Shifted(r) ==
            /\ r.exc = NoExc
            /\ BitsWritten(r.obj.output)
                  = BitsWritten(e.output)
                    \o <<TopBit(e.low, e.num_state_bits)>>
                    \o Copies(1 - TopBit(e.low, e.num_state_bits), e.num_underflow)
            /\ r.obj = [e EXCEPT !.output = r.obj.output, !.num_underflow = 0]
    IN Shifted(ArithmeticEncoder_shift(e))

\* underflow() on encoder e adds 1 to num_underflow; nothing else changes.
UnderflowCounts(e) ==
    LET Counted(r) ==
            /\ r.exc = NoExc
            /\ r.obj = [e EXCEPT !.num_underflow = e.num_underflow + 1]
    IN Counted(ArithmeticEncoder_underflow(e))

\* The number of calls named x among calls.
Count(calls, x) == Len(SelectSeq(calls, LAMBDA c : c = x))

\* The bits a write that narrowed low to newlow and then shifted shifts times
\* writes, pending underflow bits having been saved before it: the top bits
\* of newlow in turn, the saved complements after the first of them.
RECURSIVE ShiftBits(_, _, _, _)
ShiftBits(newlow, numbits, shifts, pending) ==
    IF shifts = 0 THEN << >>
    ELSE <<TopBit(newlow, numbits)>>
         \o Copies(1 - TopBit(newlow, numbits), pending)
         \o ShiftBits((2 * newlow) % Pow2(numbits), numbits, shifts - 1, 0)

\* C19: each shift() of the encoder writes exactly 1 + num_underflow bits, the
\* top bit of low as it is before the shift followed by num_underflow copies
\* of its complement, and resets num_underflow to 0; each underflow() adds
\* exactly 1 to num_underflow and writes nothing; a write makes its shift
\* calls first and its underflow calls after them, the bits appear in the
\* order of the calls, and the number of bits it adds is (shift calls) +
\* (underflow calls) - (growth of num_underflow).
C19_BitEmission ==
    (pc = "encoding" /\ IsCoder(enc))
    => /\ ShiftEmits(enc)
       /\ UnderflowCounts(enc)
       /\ last.op = "init" => BitsWritten(enc.output) = << >> /\ enc.num_underflow = 0
       /\ (last.op = "write" /\ last.exc # NoExc)
             => [enc EXCEPT !.calls = last.pre.calls] = last.pre
       /\ (last.op = "write" /\ last.exc = NoExc)
             => LET pre == last.pre
                    shifts == Count(enc.calls, "s")
                    underflows == Count(enc.calls, "u")
                IN /\ enc.calls = Copies("s", shifts) \o Copies("u", underflows)
                   /\ BitsWritten(enc.output)
                         = BitsWritten(pre.output)
                           \o ShiftBits(NarrowedLow(pre, tables[Len(tables)], last.symbol),
                                        pre.num_state_bits, shifts, pre.num_underflow)
                   /\ enc.num_underflow
                         = (IF shifts > 0 THEN 0 ELSE pre.num_underflow) + underflows
                   /\ Len(BitsWritten(enc.output)) - Len(BitsWritten(pre.output))
                         = shifts + underflows - (enc.num_underflow - pre.num_underflow)

\* A write that found an underflow bit saved and shifted twice: the saved bit
\* goes out after the first top bit, before the second.
C19_Witness ==
    /\ pc = "encoding"
    /\ last.op = "write"
    /\ last.exc = NoExc
    /\ last.pre.num_underflow > 0
    /\ Count(enc.calls, "s") >= 2
    /\ enc.num_underflow = 0

(***************************************************************************)
(* The escape protocol of encode_symbol.                                   *)
(***************************************************************************)
\* The writes the protocol prescribes for symbol, as <<order, symbol>> pairs,
\* from order ord down.
RECURSIVE Protocol(_, _, _, _)
Protocol(mdl, hist, symbol, ord) ==
    IF ord < 0 THEN << <<-1, symbol>> >>
    ELSE IF ~ContextExists(mdl, Suffix(hist, ord))
    THEN Protocol(mdl, hist, symbol, ord - 1)
    ELSE IF symbol # EofSymbol
            /\ FrequencyOf(mdl.contexts[Suffix(hist, ord)].frequencies, symbol) > 0
    THEN << <<ord, symbol>> >>
    ELSE << <<ord, EofSymbol>> >> \o Protocol(mdl, hist, symbol, ord - 1)

\* The encoder after the writes of log, each against the table of its order.
RECURSIVE WrittenAgainst(_, _, _, _)
WrittenAgainst(encoder, mdl, hist, log) ==
    IF log = << >> THEN encoder
    ELSE WrittenAgainst(
            ArithmeticEncoder_write(
                encoder,
                IF log[1][1] = -1 THEN mdl.order_minus1_freqs
                ELSE mdl.contexts[Suffix(hist, log[1][1])].frequencies,
                log[1][2]).obj,
            mdl, hist, Tail(log))

\* The encoder after symbol was coded by the protocol from the state p.
ProtocolEncoder(p, symbol) ==
    WrittenAgainst(p.enc, p.model, p.history,
                   Protocol(p.model, p.history, symbol, Len(p.history)))

\* The model, the history and the encoder of compress after its first k
\* bytes, each byte coded by the protocol.
RECURSIVE PpmStateAfter(_)
PpmStateAfter(k) ==
    IF k = 0
    THEN [model |-> PpmModel(model.model_order, NumByteValues + 1, EofSymbol).obj,
          history |-> << >>,
          enc |-> ArithmeticEncoder(AppStateBits, BitOutputStream)]
    ELSE LET Counted(p, m) ==
                 [model |-> m,
                  history |-> compress_history(m, p.history, written[k]),
                  enc |-> ProtocolEncoder(p, written[k])]
             Coded(p) ==
                 Counted(p, increment_contexts(p.model, p.history, written[k]).obj)
         IN Coded(PpmStateAfter(k - 1))

\* The state the last encode_symbol call was made in.
PpmBefore ==
    PpmStateAfter(Len(written) - (IF last.exc = NoExc THEN 1 ELSE 0))

\* The fields of an encoder a write changes.
EncoderState(e) == <<e.low, e.high, e.num_underflow, e.output>>

\* The last encode_symbol call followed the protocol, from the state before.
FollowsProtocol(before) ==
    /\ last.exc = NoExc
    /\ last.ret = Protocol(before.model, before.history, last.symbol,
                           Len(before.history))
    /\ pc = "compress"
          => EncoderState(enc) = EncoderState(ProtocolEncoder(before, last.symbol))
    /\ pc = "compressed"
          => EncoderState(enc)
               = EncoderState(ArithmeticEncoder_finish(
                                 ProtocolEncoder(before, last.symbol)).obj)
    /\ last.symbol = EofSymbol
          => /\ last.ret[Len(last.ret)] = <<-1, EofSymbol>>
             /\ \A i \in 1..(Len(last.ret) - 1) :
                   last.ret[i][1] >= 0 /\ last.ret[i][2] = EofSymbol
             /\ \A ord \in 0..Len(before.history) :
                   ContextExists(before.model, Suffix(before.history, ord))
                   <=> \E i \in 1..(Len(last.ret) - 1) : last.ret[i][1] = ord

\* C20: every encode_symbol call of a compression, for every model order from
\* -1 up, raises nothing and writes what the escape protocol prescribes: from
\* order len(history) down to 0 nothing at a context missing from the trie,
\* the symbol at the first existing context where it is not 256 and has
\* frequency > 0 and nothing after it, the escape 256 at every existing
\* context before that; the symbol against the order -1 table only when no
\* context coded it or the model order is -1.  So EOF is escaped at every
\* existing context and coded once at order -1.
C20_EscapeProtocol ==
    (InPpmCompression /\ last.op = "encode_symbol") => FollowsProtocol(PpmBefore)

\* The escape protocol for the model orders from 0 up.
EscapeProtocolFromOrder0 ==
    (InPpmCompression /\ last.op = "encode_symbol" /\ model.model_order >= 0)
    => FollowsProtocol(PpmBefore)

\* An encode_symbol call that skipped the missing context of the highest
\* order, escaped at the existing context of order 1 and coded its byte at
\* order 0.
EscapeProtocolExample ==
    /\ InPpmCompression
    /\ last.op = "encode_symbol"
    /\ last.exc = NoExc
    /\ Len(PpmBefore.history) >= 2
    /\ Len(last.ret) = 2
    /\ last.ret[1] = <<1, EofSymbol>>
    /\ last.ret[2][1] = 0
    /\ last.ret[2][2] # EofSymbol

(***************************************************************************)
(* The trie of contexts of a PpmModel.                                     *)
(***************************************************************************)
\* The paths increment_contexts walks for hist: the contexts it increments
\* are the suffixes of hist, the contexts it visits on the way are the
\* beginnings of these suffixes.
IncrementedPaths(hist) == { Suffix(hist, o) : o \in 0..Len(hist) }
VisitedPaths(hist) ==
    UNION { { SubSeq(Suffix(hist, o), 1, d) : d \in 0..o } : o \in 0..Len(hist) }

\* The frequency of symbol in the context at path before the increment of a
\* call: the one it had in mdl, and in a context the call creates 1 for the
\* escape symbol and 0 for every other symbol.
FrequencyBefore(mdl, path, symbol) ==
    IF path \in DOMAIN mdl.contexts
    THEN FrequencyOf(mdl.contexts[path].frequencies, symbol)
    ELSE IF symbol = mdl.escape_symbol THEN 1 ELSE 0

IncrementOrderMinus1 ==
    /\ pc = "trie"
    /\ last.op = "increment_contexts"
    /\ last.pre.model_order = -1
    /\ model.contexts = << >>

\* The shape of the trie of mdl: the root exists exactly from order 0 up, every
\* context is reached through existing contexts, none lies deeper than the
\* order, and those above the deepest order are the ones with a child array.
TrieShape(mdl) ==
    /\ (<< >> \in DOMAIN mdl.contexts) <=> mdl.model_order >= 0
    /\ \A path \in DOMAIN mdl.contexts :
          /\ Len(path) <= mdl.model_order
          /\ mdl.contexts[path].subcontexts <=> Len(path) < mdl.model_order
          /\ ContextExists(mdl, path)

\* C22: after construction and after every increment_contexts call, in a PPM
\* model of any order every context has depth <= order and has a child array
\* exactly when its depth is < order, so no call fails the assertion on the
\* child array; the root exists exactly when order >= 0; and every context
\* that existed before a call exists after it, with its child array or none
\* as before and no frequency lowered.
C22_TrieShape ==
    pc = "trie"
    => /\ TrieShape(model)
       /\ last.exc # "AssertionError"
       /\ last.op = "increment_contexts"
          => /\ DOMAIN last.pre.contexts \subseteq DOMAIN model.contexts
             /\ \A path \in DOMAIN last.pre.contexts :
                   /\ model.contexts[path].subcontexts
                        = last.pre.contexts[path].subcontexts
                   /\ \A s \in 0..(model.symbol_limit - 1) :
                         FrequencyOf(model.contexts[path].frequencies, s)
                           >= FrequencyOf(last.pre.contexts[path].frequencies, s)

\* A trie with a context of the deepest order, which has no child array,
\* below contexts that have one, one of them older than the last call.
C22_Witness ==
    /\ pc = "trie"
    /\ last.op = "increment_contexts"
    /\ model.model_order >= 2
    /\ \E path \in DOMAIN model.contexts :
          /\ Len(path) = model.model_order
          /\ ~model.contexts[path].subcontexts
          /\ path \notin DOMAIN last.pre.contexts
          /\ SubSeq(path, 1, 1) \in DOMAIN last.pre.contexts
          /\ model.contexts[SubSeq(path, 1, 1)].subcontexts

(***************************************************************************)
(* The history window of compress.                                         *)
(***************************************************************************)
\* The bytes compress has coded so far: written without the EOF symbol.
CodedBytes ==
    IF written # << >> /\ written[Len(written)] = EofSymbol
    THEN SubSeq(written, 1, Len(written) - 1)
    ELSE written

\* The last min(k, order) of the first k bytes coded, oldest first; empty when
\* order <= 0.
Window(k, order) ==
    IF order <= 0 THEN << >>
    ELSE SubSeq(CodedBytes, (IF k > order THEN k - order ELSE 0) + 1, k)

\* The model after the first k bytes, each counted with the window before it.
RECURSIVE WindowModel(_)
WindowModel(k) ==
    IF k = 0 THEN PpmModel(model.model_order, NumByteValues + 1, EofSymbol).obj
    ELSE increment_contexts(WindowModel(k - 1), Window(k - 1, model.model_order),
                            CodedBytes[k]).obj

\* The frequencies of the contexts of mdl.
ContextFrequencies(mdl) ==
    [path \in DOMAIN mdl.contexts |-> mdl.contexts[path].frequencies.frequencies]

\* The number of bytes coded before the last encode_symbol call.
CodedBefore ==
    Len(CodedBytes) - (IF last.symbol = EofSymbol \/ last.exc # NoExc THEN 0 ELSE 1)

\* C23: in every state of compress, with k bytes coded the history is the last
\* min(k, order) of them, oldest first, and is empty when order <= 0; so it is
\* never longer than the order and increment_contexts never raises ValueError;
\* each symbol was coded by encode_symbol with the window of the bytes before
\* it, and the contexts hold the counts of each byte under the window before it.
C23_HistoryWindow ==
    (InPpmCompression /\ pc \in {"compress", "compressed", "closed", "failed"})
    => /\ history = Window(Len(CodedBytes), model.model_order)
       /\ model.model_order <= 0 => history = << >>
       /\ model.model_order >= 0 => Len(history) <= model.model_order
       /\ last.exc # "ValueError"
       /\ (last.op = "encode_symbol" /\ last.exc = NoExc)
          => LET Coded(before, hist) ==
                     last.ret = Protocol(before, hist, last.symbol, Len(hist))
             IN /\ Coded(WindowModel(CodedBefore),
                         Window(CodedBefore, model.model_order))
                /\ ContextFrequencies(model)
                     = ContextFrequencies(WindowModel(Len(CodedBytes)))

\* More bytes were coded than the order of at least 2, and the history holds
\* the last of them, two different bytes among them.
C23_Witness ==
    /\ InPpmCompression
    /\ pc = "compress"
    /\ last.op = "encode_symbol"
    /\ last.exc = NoExc
    /\ model.model_order >= 2
    /\ Len(CodedBytes) > model.model_order
    /\ Len(history) = model.model_order
    /\ history[1] # history[2]
    /\ CodedBytes[Len(CodedBytes) - model.model_order] # history[1]

(***************************************************************************)
(* The symbols encode_symbol writes.                                       *)
(***************************************************************************)
\* The table encode_symbol chooses at order ord: the order -1 table, or the
\* one of the context at the last ord symbols of hist.
TableAtOrder(mdl, hist, ord) ==
    IF ord = -1 THEN mdl.order_minus1_freqs
    ELSE mdl.contexts[Suffix(hist, ord)].frequencies

\* Every write of log names a symbol that has a frequency > 0 in its table.
WritesNonZero(mdl, hist, log) ==
    \A i \in 1..Len(log) :
        /\ SymbolInRange(TableAtOrder(mdl, hist, log[i][1]), log[i][2])
        /\ FrequencyOf(TableAtOrder(mdl, hist, log[i][1]), log[i][2]) > 0

SymbolOutOfRangeError == "ValueError: Symbol out of range"
DecodeTotalTooLargeError == "ValueError: Cannot decode symbol because total is too large"

\* C25: a write raises exactly when the symbol is out of the table's range,
\* has frequency 0 or the total is beyond maximum_total, and then the encoder
\* (low, high, num_underflow, the bit stream and the bytes written) is as
\* before the call; the encoder is always the one that the successful writes
\* alone lead to, so a valid write after a failed one acts as if the failed
\* one had not been made.  A read raises 'total is too large' exactly when the
\* total is beyond maximum_total, and then the decoder (low, high, code and
\* its input stream with the position in it) is as before the call.
C25_FailedCallKeepsCoder ==
    /\ (pc = "encoding" /\ last.op = "write")
       => /\ last.exc # NoExc
             <=> \/ ~SymbolInRange(freqs, last.symbol)
                 \/ FrequencyOf(freqs, last.symbol) = 0
                 \/ get_total(freqs).ret > enc.maximum_total
          /\ last.exc # NoExc
             => /\ last.exc \in {SymbolOutOfRangeError, ZeroFrequencyError,
                                 TotalTooLargeError}
                /\ EncoderState(enc) = EncoderState(last.pre)
                /\ [enc EXCEPT !.calls = last.pre.calls] = last.pre
    /\ (pc = "encoding" /\ IsCoder(enc))
       => EncoderState(enc) = EncoderState(EncoderAfter(Len(written)))
    /\ (pc = "decoding" /\ last.op = "read")
       => /\ last.exc = DecodeTotalTooLargeError
             <=> get_total(last.table).ret > dec.maximum_total
          /\ last.exc = DecodeTotalTooLargeError
             => /\ <<dec.low, dec.high, dec.code, dec.input>>
                     = <<last.pre.low, last.pre.high, last.pre.code, last.pre.input>>
                /\ [dec EXCEPT !.calls = last.pre.calls] = last.pre
                /\ decoded = SubSeq(written, 1, Len(decoded))

\* A write that raised because the total is too large, on an encoder that had
\* coded two symbols and written two bits.
C25_Witness ==
    /\ pc = "encoding"
    /\ last.op = "write"
    /\ last.exc = TotalTooLargeError
    /\ Len(written) >= 2
    /\ last.pre.output.numbitsfilled = 2
    /\ enc.output.numbitsfilled = 2

\* A read that raised because the total is too large, on a decoder that had
\* decoded a symbol and has more to decode.
FailedReadExample ==
    /\ pc = "decoding"
    /\ last.op = "read"
    /\ last.exc = DecodeTotalTooLargeError
    /\ Len(decoded) >= 1
    /\ Len(decoded) < Len(written)
    /\ dec.code > 0

\* Writes that raised because the symbol has frequency 0 or is out of range.
ZeroFrequencyWriteExample ==
    pc = "encoding" /\ last.op = "write" /\ last.exc = ZeroFrequencyError
    /\ Len(written) >= 1
OutOfRangeWriteExample ==
    pc = "encoding" /\ last.op = "write" /\ last.exc = SymbolOutOfRangeError
    /\ Len(written) >= 1

(***************************************************************************)
(* The loops of update.                                                    *)
(***************************************************************************)
\* The number of top bits, of numbits, that a and b share.
RECURSIVE SharedTopBits(_, _, _)
SharedTopBits(a, b, numbits) ==
    IF numbits = 0 \/ TopBit(a, numbits) # TopBit(b, numbits) THEN 0
    ELSE 1 + SharedTopBits(a % Pow2(numbits - 1), b % Pow2(numbits - 1), numbits - 1)

\* The last update of coder c ran its first loop at most num_state_bits times
\* and its second loop at most num_state_bits - 1 times.
LoopBounds(c) ==
    /\ Count(c.calls, "s") <= c.num_state_bits
    /\ Count(c.calls, "u") <= c.num_state_bits - 1
    /\ Count(c.calls, "s") + Count(c.calls, "u") = Len(c.calls)

\* C26: from every coder state that satisfies the invariants on low and high,
\* for every num_state_bits >= 1, every table and every symbol, update
\* returns: a call that raises makes no shift or underflow call, and a call
\* that succeeds runs the first loop once per top bit the narrowed low and
\* high share, at most num_state_bits times, and the second loop at most
\* num_state_bits - 1 times.
C26_UpdateTerminates ==
    /\ IsCoder(enc) => LoopBounds(enc)
    /\ IsCoder(dec) => LoopBounds(dec)
    /\ (pc = "encoding" /\ last.op = "write")
       => /\ last.exc # NoExc => enc.calls = << >>
          /\ last.exc = NoExc
             => Count(enc.calls, "s")
                  = SharedTopBits(NarrowedLow(last.pre, freqs, last.symbol),
                                  NarrowedHigh(last.pre, freqs, last.symbol),
                                  enc.num_state_bits)

\* A write whose first loop ran num_state_bits times, with three state bits
\* or more: the symbol narrowed the range to one value.
C26_Witness ==
    /\ pc = "encoding"
    /\ last.op = "write"
    /\ last.exc = NoExc
    /\ enc.num_state_bits >= 3
    /\ Count(enc.calls, "s") = enc.num_state_bits
    /\ enc.low = 0
    /\ enc.high = enc.state_mask

\* A write whose second loop ran num_state_bits - 1 times.
UnderflowLoopExample ==
    /\ pc = "encoding"
    /\ last.op = "write"
    /\ last.exc = NoExc
    /\ enc.num_state_bits >= 3
    /\ Count(enc.calls, "u") = enc.num_state_bits - 1

(***************************************************************************)
(* The end of a bit input stream.  A decoder is constructed over a bit     *)
(* input stream of any bytes; then the stream is read through read(),      *)
(* through read_no_eof() and through the decoder's read_code_bit(), in any *)
(* order, up to and past its end.  bits holds the bits of the bytes, got   *)
(* the values the calls returned, dec.input is the stream.                 *)
(***************************************************************************)
InitEof ==
    /\ \E numbits \in 1..MaxStateBits : \E bytes \in InputStreams :
          /\ dec = ArithmeticDecoder(numbits, BitInputStream(bytes))
          /\ bits = BytesBits(bytes)
    /\ got = << >>
    /\ outstream = NoObject
    /\ instream = NoObject
    /\ freqs = NoObject
    /\ enc = NoObject
    /\ last = NoCall
    /\ written = << >>
    /\ tables = << >>
    /\ decoded = << >>
    /\ pc = "eof"
    /\ NoFiles /\ NoPpm

\* A call on the stream of the decoder, or on the decoder, that left r.
EofCall(op, stream, r) ==
    /\ pc = "eof"
    /\ Len(got) < Len(bits) + 3
    /\ dec' = [dec EXCEPT !.input = stream]
    /\ got' = IF r.exc = NoExc THEN Append(got, r.ret) ELSE got
    /\ last' = Call(op, 0, dec.input, r)
    /\ UNCHANGED <<outstream, instream, bits, pc, freqs, enc, written, tables,
                   decoded, fileVars, ppmVars>>

\* dec.input.read()
EofRead ==
    \E r \in {BitInputStream_read(dec.input)} : EofCall("read", r.obj, r)

\* dec.input.read_no_eof()
EofReadNoEof ==
    \E r \in {BitInputStream_read_no_eof(dec.input)} : EofCall("read_no_eof", r.obj, r)

\* dec.read_code_bit()
EofReadCodeBit ==
    \E r \in {ArithmeticDecoder_read_code_bit(dec)} :
        EofCall("read_code_bit", r.obj.input, r)

NextEof ==
    \/ EofRead
    \/ EofReadNoEof
    \/ EofReadCodeBit

SpecEof == InitEof /\ [][NextEof]_vars

\* The byte source of stream s is exhausted at a byte boundary: the next read
\* finds no bit; and the end of the stream has been reported.
Exhausted(s) ==
    s.currentbyte = -1 \/ (s.numbitsremaining = 0 /\ Len(s.input) = 0)
EndReported(s) == s.currentbyte = -1

\* The number of bits of the bytes that have been taken from stream s.
BitsTaken(s) == Len(bits) - 8 * Len(s.input) - s.numbitsremaining

\* C27: between calls numbitsremaining is in 0..7; read returns -1 exactly when
\* the byte source is exhausted at a byte boundary, on the call that finds it
\* so and on every later call, and a bit of the bytes otherwise; once the end
\* was reported it stays reported, nothing is left to read and no further bit
\* is taken; read_no_eof raises EOFError exactly when read returns -1;
\* read_code_bit never raises and returns 0 at the end of the stream; the
\* bits the calls returned before the end are the bits of the bytes in order,
\* all of them, and the values returned after it are -1 or 0.
C27_EndOfStream ==
    pc = "eof"
    => /\ dec.input.numbitsremaining \in 0..7
       /\ EndReported(dec.input)
          => (dec.input.numbitsremaining = 0 /\ dec.input.input = << >>)
       /\ BitsTaken(dec.input) \in 0..Len(bits)
       /\ last.op \in {"read", "read_no_eof", "read_code_bit"}
          => /\ Exhausted(last.pre)
                => /\ EndReported(dec.input)
                   /\ BitsTaken(dec.input) = BitsTaken(last.pre)
                   /\ BitsTaken(dec.input) = Len(bits)
             /\ EndReported(last.pre) => dec.input = last.pre
             /\ ~Exhausted(last.pre)
                => /\ last.exc = NoExc
                   /\ BitsTaken(dec.input) = BitsTaken(last.pre) + 1
                   /\ last.ret = bits[BitsTaken(dec.input)]
                   /\ ~EndReported(dec.input)
       /\ last.op = "read"
          => (last.exc = NoExc /\ (last.ret = -1 <=> Exhausted(last.pre)))
       /\ last.op = "read_no_eof"
          => /\ last.exc \in {NoExc, "EOFError"}
             /\ last.exc = "EOFError" <=> Exhausted(last.pre)
       /\ last.op = "read_code_bit"
          => /\ last.exc = NoExc
             /\ last.ret \in {0, 1}
             /\ Exhausted(last.pre) => last.ret = 0
       /\ \A i \in 1..Len(got) :
             IF dec.num_state_bits + i <= Len(bits)
             THEN got[i] = bits[dec.num_state_bits + i]
             ELSE got[i] \in {-1, 0}
       /\ dec.code < Pow2(dec.num_state_bits)

\* After a whole byte was read, three more calls found the end of the stream:
\* read returned -1 twice and read_code_bit returned 0 after the first.
C27_Witness ==
    /\ pc = "eof"
    /\ Len(bits) >= 8
    /\ Len(got) = Len(bits) - dec.num_state_bits + 3
    /\ got[Len(got) - 2] = -1
    /\ got[Len(got) - 1] = 0
    /\ got[Len(got)] = -1
    /\ last.op = "read"
    /\ \E i \in 1..(Len(got) - 3) : got[i] = 1

\* read_no_eof raised at the end of a stream of one byte or more.
ReadNoEofExample ==
    /\ pc = "eof"
    /\ last.op = "read_no_eof"
    /\ last.exc = "EOFError"
    /\ Len(bits) >= 8
    /\ EndReported(last.pre)
====
